---- MODULE Spec2Model ----
(***************************************************************************)
(* Log analyzer of Json-Morph (src/pages/LogAnalyzer.tsx): the line        *)
(* parser analyzeLogs, the identifier extractor extractKeys, the           *)
(* request/response correlation groupTransactions, and the component       *)
(* state that holds their results.                                         *)
(*                                                                         *)
(* Two specifications share the definitions:                               *)
(*   SpecCorr  one correlation run, one forEach iteration per step, over   *)
(*             every bounded log text;                                     *)
(*   Spec      the component: typing, analyze, upload, view mode, clear,   *)
(*             with the effect that re-runs the correlation.               *)
(***************************************************************************)
EXTENDS Integers, Sequences, FiniteSets, TLC

\* ------------------------------------------------------------------------
\* Bounds
\* ------------------------------------------------------------------------
\* longest log text, in lines, of a correlation run
MaxLines == 3
\* file reads in flight at once in the component specification
MaxReaders == 2
\* pending progress-reset timers in the component specification
MaxTimers == 1

\* ------------------------------------------------------------------------
\* JavaScript numbers: an integer or NaN
\* ------------------------------------------------------------------------
NaN == [nan |-> TRUE, v |-> 0]

Num(x) == [nan |-> FALSE, v |-> x]

\* a - b
Minus(a, b) == IF a.nan \/ b.nan THEN NaN ELSE Num(a.v - b.v)

\* a > b and a < b are false when either side is NaN
Gt(a, b) == ~a.nan /\ ~b.nan /\ a.v > b.v

Lt(a, b) == ~a.nan /\ ~b.nan /\ a.v < b.v

isNaN(a) == a.nan

\* ------------------------------------------------------------------------
\* Text.  A line is a sequence of lexical items; a log text is a sequence
\* of lines.  An item is what one of the program's regular expressions or
\* substring tests can see:
\*   ts     a date-time  YYYY-MM-DD[T ]HH:MM:SS[.f]; a = "ok" when Date
\*          accepts it (n = its epoch milliseconds), "bad" when the
\*          pattern matches but Date rejects it (month 13, hour 25)
\*   word   a run of letters, a
\*   sym    the character a
\*   field  "a": "b"   (n = number of digits when b is a run of digits)
\*   num    a standalone run of n digits, a
\*   ufield   "a": b   with b not in quotes, followed by a comma, a closing
\*            brace or the end of the line
\*   ufieldsp "a": b }  with b not in quotes, followed by a blank and the
\*            closing brace
\* ------------------------------------------------------------------------
Tok(k, a, b, n) == [k |-> k, a |-> a, b |-> b, n |-> n]

Ts(ms) == Tok("ts", "ok", "", ms)

BadTs == Tok("ts", "bad", "", 0)

Word(w) == Tok("word", w, "", 0)

Brace == Tok("sym", "{", "", 0)

Field(name, val) == Tok("field", name, val, 0)

NumField(name, val, n) == Tok("field", name, val, n)

Digits(d, n) == Tok("num", d, "", n)

UField(name, val) == Tok("ufield", name, val, 0)

UFieldSp(name, val) == Tok("ufieldsp", name, val, 0)

FieldKinds == {"field", "ufield", "ufieldsp"}

\* String.prototype.toLowerCase on the words of the vocabulary
toLowerCase(w) ==
  CASE w = "Request" -> "request"
    [] w = "REQUEST" -> "request"
    [] w = "ApiRequest" -> "apirequest"
    [] w = "Response" -> "response"
    [] w = "RESPONSE" -> "response"
    [] w = "InputChainData" -> "inputchaindata"
    [] w = "OutputChainData" -> "outputchaindata"
    [] w = "ERROR" -> "error"
    [] w = "Error" -> "error"
    [] w = "WARN" -> "warn"
    [] w = "INFO" -> "info"
    [] w = "Info" -> "info"
    [] w = "DEBUG" -> "debug"
    [] OTHER -> w

\* String.prototype.toUpperCase on the level words
toUpperCase(w) ==
  CASE toLowerCase(w) = "error" -> "ERROR"
    [] toLowerCase(w) = "warn" -> "WARN"
    [] toLowerCase(w) = "info" -> "INFO"
    [] toLowerCase(w) = "debug" -> "DEBUG"
    [] OTHER -> w

\* w contains s as a substring (words of the vocabulary)
WordIncludes(w, s) ==
  \/ w = s
  \/ w = "apirequest" /\ s = "request"
  \/ w = "outputchaindata" /\ s = "data"

\* message.includes(s), s a run of letters
includes(message, s) ==
  \E i \in 1..Len(message) :
    message[i].k = "word" /\ WordIncludes(message[i].a, s)

\* message.toLowerCase().includes(s)
lowerIncludes(message, s) ==
  \E i \in 1..Len(message) :
    message[i].k = "word" /\ WordIncludes(toLowerCase(message[i].a), s)

\* message.includes('{')
includesBrace(message) ==
  \E i \in 1..Len(message) : message[i].k = "sym" /\ message[i].a = "{"

\* ------------------------------------------------------------------------
\* Date
\* ------------------------------------------------------------------------
\* a timestamp string: the matched date-time text, or an ISO string
TimestampOf(tok) == [valid |-> tok.a = "ok", ms |-> tok.n]

\* new Date().toISOString() when the clock reads now
toISOString(now) == [valid |-> TRUE, ms |-> now]

\* new Date(timestamp).getTime()
getTime(timestamp) == IF timestamp.valid THEN Num(timestamp.ms) ELSE NaN

\* ------------------------------------------------------------------------
\* analyzeLogs (the line parser)
\* ------------------------------------------------------------------------
Space == Tok("sp", " ", "", 0)

\* line.trim() is a non-empty string
trimNonEmpty(line) == \E i \in 1..Len(line) : line[i].k # "sp"

\* String.match without the g flag: the first of the matching positions,
\* 0 when there is none
FirstIndex(positions) ==
  IF positions = {} THEN 0
  ELSE CHOOSE i \in positions : \A j \in positions : i <= j

IsTimestampTok(tok) == tok.k = "ts"

LevelWords == {"error", "warn", "info", "debug"}

IsLevelTok(tok) == tok.k = "word" /\ toLowerCase(tok.a) \in LevelWords

\* ------------------------------------------------------------------------
\* extractTag.  Its patterns look at single characters, so a line is
\* spelled out as pieces: a run of len characters of one class,
\*   txt   characters other than blanks, ':' and '{'
\*   dig   a run of digits (a txt the pattern ^\d+ also sees)
\*   ws    blanks
\*   colon ':'          brace '{'
\* s names the text the piece is the first len characters of.
\* ------------------------------------------------------------------------
\* the longest capture of colonMatch and braceMatch
TagLimit == 50

\* the long word of the vocabulary
LongWord == "SynchronizeWarehouseInventoryWithMarketplaceListingsBackgroundJob"

\* String.prototype.length on the vocabulary
strlen(w) ==
  CASE w = LongWord -> 65
    [] w = "OutputChainData" -> 15
    [] w = "InputChainData" -> 14
    [] w = "ReturnCode" -> 10
    [] w = "OrderCode" -> 9
    [] w \in {"response", "Response"} -> 8
    [] w \in {"request", "Request", "Success", "Failure", "API0002"} -> 7
    [] w \in {"ShopId", "Status", "TMCode", "TSCode"} -> 6
    [] w = "ERROR" -> 5
    [] w \in {"data", "null"} -> 4
    [] OTHER -> 1

Piece(c, s, len) == [c |-> c, s |-> s, len |-> len]

Blank == Piece("ws", " ", 1)

\* the characters of one item
piecesOf(tok) ==
  CASE tok.k = "ts" ->
         <<Piece("txt", "YYYY-MM-DD", 10), Blank, Piece("txt", "HH", 2),
           Piece("colon", ":", 1), Piece("txt", "MM", 2),
           Piece("colon", ":", 1), Piece("txt", "SS", 2)>>
    [] tok.k = "word" -> <<Piece("txt", tok.a, strlen(tok.a))>>
    [] tok.k = "sym" -> <<Piece("brace", "{", 1)>>
    [] tok.k = "num" -> <<Piece("dig", tok.a, tok.n)>>
    [] tok.k = "sp" -> <<Blank>>
    [] tok.k = "field" ->
         <<Piece("txt", tok.a, strlen(tok.a) + 2), Piece("colon", ":", 1),
           Blank, Piece("txt", tok.b, strlen(tok.b) + 2)>>
    [] tok.k = "ufield" ->
         <<Piece("txt", tok.a, strlen(tok.a) + 2), Piece("colon", ":", 1),
           Blank, Piece("txt", tok.b, strlen(tok.b))>>
    [] tok.k = "ufieldsp" ->
         <<Piece("txt", tok.a, strlen(tok.a) + 2), Piece("colon", ":", 1),
           Blank, Piece("txt", tok.b, strlen(tok.b)), Blank,
           Piece("txt", "}", 1)>>

\* the characters between two items of a line: nothing next to a brace or
\* a blank, ", " between two fields, one blank otherwise
between(tok, next) ==
  IF tok.k \in {"sym", "sp"} \/ next.k \in {"sym", "sp"} THEN << >>
  ELSE IF tok.k \in FieldKinds /\ next.k \in FieldKinds
    THEN <<Piece("txt", ",", 1), Blank>>
  ELSE <<Blank>>

\* the characters of line from item i on
RECURSIVE piecesFrom(_, _)
piecesFrom(line, i) ==
  IF i > Len(line) THEN << >>
  ELSE piecesOf(line[i])
         \o (IF i < Len(line) THEN between(line[i], line[i + 1]) ELSE << >>)
         \o piecesFrom(line, i + 1)

\* the number of characters of pieces 1..n
RECURSIVE lengthOf(_, _)
lengthOf(pieces, n) ==
  IF n = 0 THEN 0 ELSE lengthOf(pieces, n - 1) + pieces[n].len

\* String.prototype.trim
RECURSIVE trim(_)
trim(pieces) ==
  IF pieces = << >> THEN << >>
  ELSE IF pieces[1].c = "ws" THEN trim(Tail(pieces))
  ELSE IF pieces[Len(pieces)].c = "ws"
    THEN trim(SubSeq(pieces, 1, Len(pieces) - 1))
  ELSE pieces

\* the first n characters
RECURSIVE take(_, _)
take(pieces, n) ==
  IF n <= 0 \/ pieces = << >> THEN << >>
  ELSE IF pieces[1].len <= n
    THEN <<pieces[1]>> \o take(Tail(pieces), n - pieces[1].len)
  ELSE <<Piece(pieces[1].c, pieces[1].s, n)>>

\* lines 259-265: what follows the timestamp (at item t, 0 when the line
\* has none), without a leading run of digits, trimmed.  The first two
\* replace calls find nothing: the timestamp took its fraction with it, and
\* a second date-time is never the first character of what follows.
bodyOf(line, t) ==
  LET sliced == IF t = 0 THEN piecesFrom(line, 1)
                ELSE IF t = Len(line) THEN << >>
                ELSE between(line[t], line[t + 1]) \o piecesFrom(line, t + 1)
      digits == sliced # << >> /\ sliced[1].c = "dig"
      blank == digits /\ Len(sliced) > 1 /\ sliced[2].c = "ws"
  IN trim(IF blank THEN SubSeq(sliced, 3, Len(sliced))
          ELSE IF digits THEN Tail(sliced)
          ELSE sliced)

\* ^([^<stops>]{1,50})\s*<stop>: the capture, greedy, of at most TagLimit
\* characters, then blanks, then the stop character; ok is FALSE when the
\* pattern does not match
captureBefore(body, stops, stop) ==
  LET p == FirstIndex({i \in 1..Len(body) : body[i].c \in stops})
      n == IF p = 0 THEN 0 ELSE lengthOf(body, p - 1)
      blanksAfterLimit ==
        \A i \in 1..(p - 1) :
          lengthOf(body, i) > TagLimit => body[i].c = "ws"
  IN IF p = 0 \/ n = 0 \/ body[p].c # stop
       THEN [ok |-> FALSE, capture |-> << >>]
     ELSE IF n <= TagLimit
       THEN [ok |-> TRUE, capture |-> SubSeq(body, 1, p - 1)]
     ELSE IF blanksAfterLimit
       THEN [ok |-> TRUE, capture |-> take(body, TagLimit)]
     ELSE [ok |-> FALSE, capture |-> << >>]

\* ^[^\s{:]+
genericMatch(body) ==
  LET p == FirstIndex({i \in 1..Len(body) :
                         body[i].c \in {"ws", "brace", "colon"}})
  IN IF p = 0 THEN body ELSE SubSeq(body, 1, p - 1)

\* the tag of a line, '' being << >>
extractTag(line, t) ==
  LET body == bodyOf(line, t)
      colonMatch == captureBefore(body, {"colon"}, "colon")
      braceMatch == captureBefore(body, {"colon", "brace"}, "brace")
  IN IF colonMatch.ok THEN trim(colonMatch.capture)
     ELSE IF braceMatch.ok THEN trim(braceMatch.capture)
     ELSE genericMatch(body)

\* tag.length
tagLength(tag) == lengthOf(tag, Len(tag))

\* one iteration of lines.forEach: the LogEntry of a line.  ref is the
\* identity of the entry object: its position in the parsed array.
parseLine(line, ref, now) ==
  LET timestampMatch ==
        FirstIndex({i \in 1..Len(line) : IsTimestampTok(line[i])})
      levelMatch == FirstIndex({i \in 1..Len(line) : IsLevelTok(line[i])})
  IN [ref |-> ref,
      timestamp |-> IF timestampMatch # 0
                      THEN TimestampOf(line[timestampMatch])
                      ELSE toISOString(now),
      level |-> IF levelMatch # 0
                  THEN toUpperCase(line[levelMatch].a)
                  ELSE "INFO",
      message |-> line,
      tags |-> IF extractTag(line, timestampMatch) # << >>
                 THEN <<extractTag(line, timestampMatch)>>
                 ELSE << >>]

\* the array analyzeLogs hands to setParsedLogs
analyzeLogs(logText, now) ==
  LET lines == SelectSeq(logText, trimNonEmpty)
  IN [i \in 1..Len(lines) |-> parseLine(lines[i], i, now)]

\* ------------------------------------------------------------------------
\* extractKeys (the identifier extractor)
\* ------------------------------------------------------------------------
AllowList ==
  {"TSCode", "TMCode", "ShippingOrderCode", "OrderCode", "Shopid", "ShopId"}

\* the text v followed by one blank
withBlank(v) ==
  CASE v = "null" -> "null "
    [] v = "0" -> "0 "
    [] OTHER -> v

\* match[2] of structuredPattern: "?([^",}]+)"? takes every character up
\* to the next quote, comma or closing brace, blanks included
capturedValue(tok) == IF tok.k = "ufieldsp" THEN withBlank(tok.b) ELSE tok.b

IsStructuredTok(tok) ==
  /\ tok.k \in FieldKinds
  /\ tok.a \in AllowList
  /\ capturedValue(tok) # ""
  /\ capturedValue(tok) # "null"

\* a standalone run of 8 to 15 digits, bare or as a field's value
IsNumberTok(tok) ==
  tok.k \in {"num"} \cup FieldKinds /\ tok.n >= 8 /\ tok.n <= 15

NumberText(tok) == IF tok.k = "num" THEN tok.a ELSE tok.b

\* rule 1: the structured keys, in text order
RECURSIVE structuredKeys(_, _)
structuredKeys(content, i) ==
  IF i > Len(content) THEN << >>
  ELSE IF IsStructuredTok(content[i])
    THEN << <<content[i].a, capturedValue(content[i])>> >>
           \o structuredKeys(content, i + 1)
    ELSE structuredKeys(content, i + 1)

\* rule 2: foundNumbers, a Set in insertion order
RECURSIVE foundNumbers(_, _, _)
foundNumbers(content, i, found) ==
  IF i > Len(content) THEN found
  ELSE IF IsNumberTok(content[i])
          /\ \A j \in 1..Len(found) : found[j] # NumberText(content[i])
    THEN foundNumbers(content, i + 1, Append(found, NumberText(content[i])))
    ELSE foundNumbers(content, i + 1, found)

\* variant: the numbers are pushed before the structured keys
extractKeysNumbersFirst(content) ==
  LET nums == foundNumbers(content, 1, << >>)
  IN [j \in 1..Len(nums) |-> <<"NumberMatch", nums[j]>>]
       \o structuredKeys(content, 1)

extractKeys(content) ==
  LET nums == foundNumbers(content, 1, << >>)
  IN structuredKeys(content, 1)
       \o [j \in 1..Len(nums) |-> <<"NumberMatch", nums[j]>>]

\* ------------------------------------------------------------------------
\* Role tests of groupTransactions
\* ------------------------------------------------------------------------
isRequest(log) ==
  \/ lowerIncludes(log.message, "request") /\ includesBrace(log.message)
  \/ includes(log.message, "InputChainData")

\* variant: a response needs the brace, the marker does not count
isResponseBraceOnly(log) ==
  lowerIncludes(log.message, "response") /\ includesBrace(log.message)

isResponse(log) ==
  /\ lowerIncludes(log.message, "response")
  /\ \/ includesBrace(log.message)
     \/ includes(log.message, "OutputChainData")

\* ------------------------------------------------------------------------
\* groupTransactions (the correlation).  requestLookup is a Map from key to
\* LogEntry; requestsByTime an array of {log, keys, time}; groups the array
\* of Transaction.
\* ------------------------------------------------------------------------
\* the 10 second window of the time pairing, in milliseconds
Window == 10000

EmptyMap == [k \in {} |-> 0]

\* variant: a set that keeps the entry a key already has
MapSetIfAbsent(m, k, log) ==
  [x \in (DOMAIN m) \cup {k} |-> IF x \in DOMAIN m THEN m[x] ELSE log]

\* requestLookup.set(k, log)
MapSet(m, k, log) ==
  [x \in (DOMAIN m) \cup {k} |-> IF x = k THEN log ELSE m[x]]

\* variant: the delete that removes nothing
MapKeep(m, k) == m

\* requestLookup.delete(k)
MapDelete(m, k) == [x \in (DOMAIN m) \ {k} |-> m[x]]

\* keys.forEach(k => requestLookup.set(k, log))
RECURSIVE registerKeys(_, _, _, _)
registerKeys(m, keys, i, log) ==
  IF i > Len(keys) THEN m
  ELSE registerKeys(MapSet(m, keys[i], log), keys, i + 1, log)

\* first phase, one iteration of parsedLogs.forEach
indexLog(lookup, byTime, log) ==
  LET keys == extractKeys(log.message)
      time == getTime(log.timestamp)
  IN IF isRequest(log) /\ Len(keys) > 0
       THEN [requestLookup |-> registerKeys(lookup, keys, 1, log),
             requestsByTime |->
               Append(byTime, [log |-> log, keys |-> keys, time |-> time])]
       ELSE [requestLookup |-> lookup, requestsByTime |-> byTime]

\* variant: the last key the lookup has wins (a loop without the break)
lastLookupHit(keys, lookup) ==
  IF \E i \in 1..Len(keys) : keys[i] \in DOMAIN lookup
    THEN CHOOSE i \in 1..Len(keys) :
           /\ keys[i] \in DOMAIN lookup
           /\ \A j \in (i + 1)..Len(keys) : keys[j] \notin DOMAIN lookup
    ELSE 0

\* strategy 1: position in keys of the first key the lookup has, 0 when none
firstLookupHit(keys, lookup) ==
  IF \E i \in 1..Len(keys) : keys[i] \in DOMAIN lookup
    THEN CHOOSE i \in 1..Len(keys) :
           /\ keys[i] \in DOMAIN lookup
           /\ \A j \in 1..(i - 1) : keys[j] \notin DOMAIN lookup
    ELSE 0

\* variant: the loop without the alreadyMatched test
neverMatched(groups, log) == FALSE

\* groups.some(g => g.requestLog === req.log)
alreadyMatched(groups, log) ==
  \E g \in 1..Len(groups) : groups[g].requestLog = log

\* variant: the loop without the upper end of the window
RECURSIVE closestRequestNoWindow(_, _, _, _, _)
closestRequestNoWindow(byTime, i, responseTime, groups, closest) ==
  IF i > Len(byTime) THEN closest
  ELSE
    LET timeDiff == Minus(responseTime, byTime[i].time)
        closer == \/ closest = 0
                  \/ Lt(timeDiff, Minus(responseTime, byTime[closest].time))
    IN IF /\ Gt(timeDiff, Num(0))
          /\ closer
          /\ ~alreadyMatched(groups, byTime[i].log)
         THEN closestRequestNoWindow(byTime, i + 1, responseTime, groups, i)
         ELSE closestRequestNoWindow(byTime, i + 1, responseTime, groups,
                                     closest)

\* strategy 2: the loop over requestsByTime; closest is a position in
\* byTime, 0 while closestRequest is undefined and minTimeDiff is Infinity
RECURSIVE closestRequest(_, _, _, _, _)
closestRequest(byTime, i, responseTime, groups, closest) ==
  IF i > Len(byTime) THEN closest
  ELSE
    LET timeDiff == Minus(responseTime, byTime[i].time)
        closer == \/ closest = 0
                  \/ Lt(timeDiff, Minus(responseTime, byTime[closest].time))
    IN IF /\ Gt(timeDiff, Num(0))
          /\ Lt(timeDiff, Num(Window))
          /\ closer
          /\ ~alreadyMatched(groups, byTime[i].log)
         THEN closestRequest(byTime, i + 1, responseTime, groups, i)
         ELSE closestRequest(byTime, i + 1, responseTime, groups, closest)

\* message.includes('"Status"')
includesStatus(message) ==
  \E i \in 1..Len(message) :
    message[i].k \in FieldKinds /\ message[i].a = "Status"

\* statusMatch[1]: the first "Status": "<value>" of the message, "" when
\* statusMatch is null
statusValue(message) ==
  LET at == FirstIndex({i \in 1..Len(message) :
                          message[i].k = "field" /\ message[i].a = "Status"})
  IN IF at = 0 THEN "" ELSE message[at].b

\* message.includes('"ReturnCode": "API') without '"ReturnCode": "API0001"'
IsApiCode(v) == v \in {"API0001", "API0002", "API9999"}

returnCodeError(message) ==
  /\ \E i \in 1..Len(message) :
       /\ message[i].k = "field" /\ message[i].a = "ReturnCode"
       /\ IsApiCode(message[i].b)
  /\ ~\E i \in 1..Len(message) :
       /\ message[i].k = "field" /\ message[i].a = "ReturnCode"
       /\ message[i].b = "API0001"

\* variant: the Status field is looked at before the level
transactionStatusLevelLast(log) ==
  IF includesStatus(log.message)
    THEN (IF statusValue(log.message) # ""
             /\ statusValue(log.message) # "Success"
            THEN "error" ELSE "success")
  ELSE IF log.level = "ERROR" THEN "error"
  ELSE IF returnCodeError(log.message) THEN "error"
  ELSE "success"

\* the status of the transaction of a response
transactionStatus(log) ==
  IF log.level = "ERROR" THEN "error"
  ELSE IF includesStatus(log.message)
    THEN (IF statusValue(log.message) # ""
             /\ statusValue(log.message) # "Success"
            THEN "error" ELSE "success")
  ELSE IF returnCodeError(log.message) THEN "error"
  ELSE "success"

\* the label of a time pairing whose request has no key
TimeLabel == <<"Time">>

\* the match of a response: method "Key", "Time" or "" (no match), the
\* matched request and key, and whether strategy 2 was entered
matchResponse(lookup, byTime, groups, log) ==
  LET keys == extractKeys(log.message)
      responseTime == getTime(log.timestamp)
      hit == firstLookupHit(keys, lookup)
      closest == closestRequest(byTime, 1, responseTime, groups, 0)
  IN IF hit # 0
       THEN [method |-> "Key", request |-> lookup[keys[hit]],
             key |-> keys[hit], fallback |-> FALSE]
     ELSE IF Len(byTime) > 0 /\ closest # 0
       THEN [method |-> "Time", request |-> byTime[closest].log,
             key |-> IF Len(byTime[closest].keys) > 0
                       THEN byTime[closest].keys[1] ELSE TimeLabel,
             fallback |-> TRUE]
     ELSE [method |-> "", request |-> log, key |-> TimeLabel,
           fallback |-> Len(byTime) > 0]

\* variant: the subtraction with its operands swapped
durationOfReversed(responseTime, reqTime) ==
  LET duration == Minus(reqTime, responseTime)
  IN IF isNaN(duration) THEN Num(0) ELSE duration

\* duration: isNaN(duration) ? 0 : duration
durationOf(responseTime, reqTime) ==
  LET duration == Minus(responseTime, reqTime)
  IN IF isNaN(duration) THEN Num(0) ELSE duration

\* variant: keyInfo names the first key of the matched request
makeTransactionRequestKey(m, log) ==
  LET responseTime == getTime(log.timestamp)
      reqTime == getTime(m.request.timestamp)
  IN [id |-> <<m.key, responseTime>>,
      requestLog |-> m.request,
      responseLog |-> log,
      duration |-> durationOf(responseTime, reqTime),
      status |-> transactionStatus(log),
      keyInfo |-> [key |-> extractKeys(m.request.message)[1],
                   timePaired |-> m.method # "Key"],
      timestamp |-> m.request.timestamp]

\* the Transaction pushed for a matched response
makeTransaction(m, log) ==
  LET responseTime == getTime(log.timestamp)
      reqTime == getTime(m.request.timestamp)
  IN [id |-> <<m.key, responseTime>>,
      requestLog |-> m.request,
      responseLog |-> log,
      duration |-> durationOf(responseTime, reqTime),
      status |-> transactionStatus(log),
      keyInfo |-> [key |-> m.key, timePaired |-> m.method # "Key"],
      timestamp |-> m.request.timestamp]

\* variant: strategy 2 runs although strategy 1 matched, and both push
matchLogBoth(lookup, byTime, groups, log) ==
  LET m == matchResponse(lookup, byTime, groups, log)
      closest == closestRequest(byTime, 1, getTime(log.timestamp), groups, 0)
      byKey == Append(groups, makeTransaction(m, log))
      timed == [method |-> "Time", request |-> byTime[closest].log,
                key |-> byTime[closest].keys[1], fallback |-> TRUE]
  IN IF ~isResponse(log) \/ m.method = ""
       THEN [requestLookup |-> lookup, groups |-> groups]
       ELSE [requestLookup |-> IF m.method = "Key"
                                 THEN MapDelete(lookup, m.key) ELSE lookup,
             groups |-> IF m.method = "Key" /\ closest # 0
                          THEN Append(byKey, makeTransaction(timed, log))
                          ELSE byKey]

\* second phase, one iteration of parsedLogs.forEach
matchLog(lookup, byTime, groups, log) ==
  LET m == matchResponse(lookup, byTime, groups, log)
  IN IF ~isResponse(log) \/ m.method = ""
       THEN [requestLookup |-> lookup, groups |-> groups]
       ELSE [requestLookup |-> IF m.method = "Key"
                                 THEN MapDelete(lookup, m.key) ELSE lookup,
             groups |-> Append(groups, makeTransaction(m, log))]

\* ------------------------------------------------------------------------
\* groups.sort((a, b) => time(b.timestamp) - time(a.timestamp))
\* ------------------------------------------------------------------------
\* variant: the comparator with its operands swapped (oldest first)
sortsBeforeAscending(a, b) == Lt(getTime(a.timestamp), getTime(b.timestamp))

\* the comparator puts a before b (its result is negative)
sortsBefore(a, b) == Gt(getTime(a.timestamp), getTime(b.timestamp))

\* the comparator is consistent on the array: a NaN result counts as 0, so
\* an unparseable timestamp ties with every other one
consistentComparator(groups) ==
  \/ \A i \in 1..Len(groups) : ~isNaN(getTime(groups[i].timestamp))
  \/ \A i, j \in 1..Len(groups) :
       ~sortsBefore(groups[i], groups[j])

\* stable insertion of x into a sorted array
sortInsert(sorted, x) ==
  LET k == Cardinality({i \in 1..Len(sorted) : ~sortsBefore(x, sorted[i])})
  IN SubSeq(sorted, 1, k) \o <<x>> \o SubSeq(sorted, k + 1, Len(sorted))

RECURSIVE stableSort(_, _, _)
stableSort(groups, i, sorted) ==
  IF i > Len(groups) THEN sorted
  ELSE stableSort(groups, i + 1, sortInsert(sorted, groups[i]))

\* the arrays sort may leave: the stable order, newest first, when the
\* comparator is consistent; otherwise the order is implementation-defined
sortOutcomes(groups) ==
  IF consistentComparator(groups)
    THEN {stableSort(groups, 1, << >>)}
    ELSE {[i \in 1..Len(groups) |-> groups[p[i]]] :
            p \in Permutations(1..Len(groups))}

\* the engine's sort is a function of the array it is given: an array it
\* has sorted before (memo) is left in the same order again
engineSort(groups, memo) ==
  IF \E r \in 1..Len(memo) : memo[r].input = groups
    THEN {memo[r].output : r \in {q \in 1..Len(memo) : memo[q].input = groups}}
    ELSE sortOutcomes(groups)

\* the two phases as folds over parsedLogs
RECURSIVE indexPass(_, _, _)
indexPass(logs, i, st) ==
  IF i > Len(logs) THEN st
  ELSE indexPass(logs, i + 1,
                 indexLog(st.requestLookup, st.requestsByTime, logs[i]))

RECURSIVE matchPass(_, _, _, _)
matchPass(logs, i, byTime, st) ==
  IF i > Len(logs) THEN st
  ELSE matchPass(logs, i + 1, byTime,
                 matchLog(st.requestLookup, byTime, st.groups, logs[i]))

\* the arrays groupTransactions may hand to setTransactions.  The body of
\* the first forEach is under if (isRequest) and that of the second begins
\* with if (!isResponse) return, so each pass goes through the records of
\* its role only.
groupTransactions(logs) ==
  LET indexed == indexPass(SelectSeq(logs, isRequest), 1,
                           [requestLookup |-> EmptyMap,
                            requestsByTime |-> << >>])
      matched == matchPass(SelectSeq(logs, isResponse), 1,
                           indexed.requestsByTime,
                           [requestLookup |-> indexed.requestLookup,
                            groups |-> << >>])
  IN sortOutcomes(matched.groups)

\* ------------------------------------------------------------------------
\* Inputs: log lines, log texts, clock readings
\* ------------------------------------------------------------------------
\* 00:00:00 request{"OrderCode": "A", "ShopId": "S"
RqAS == <<Ts(0), Word("request"), Brace,
          Field("OrderCode", "A"), Field("ShopId", "S")>>

\* 00:00:10 Request{12345678 "OrderCode": "A"
RqA10 == <<Ts(10000), Word("Request"), Brace, Digits("12345678", 8),
           Field("OrderCode", "A")>>

\* 00:00:00 request{            (no key)
Rq0 == <<Ts(0), Word("request"), Brace>>

\* <date Date rejects> InputChainData "OrderCode": "A"
RqBadA == <<BadTs, Word("InputChainData"), Field("OrderCode", "A")>>

\* 00:00:03 response{"OrderCode": "A", "Status": "Success"
RsA3 == <<Ts(3000), Word("response"), Brace,
          Field("OrderCode", "A"), Field("Status", "Success")>>

\* 00:00:03 ERROR Response{"ShopId": "S", "OrderCode": "A", "Status": "Success"
RsSA3 == <<Ts(3000), Word("ERROR"), Word("Response"), Brace,
           Field("ShopId", "S"), Field("OrderCode", "A"),
           Field("Status", "Success")>>

\* 00:00:03 response{"Status": 0, "ReturnCode": "API0002"     (no key)
Rs3 == <<Ts(3000), Word("response"), Brace,
         UField("Status", "0"), Field("ReturnCode", "API0002")>>

\* 00:00:10 response{"Status": "Failure"     (no key)
Rs10 == <<Ts(10000), Word("response"), Brace, Field("Status", "Failure")>>

\* 00:00:15 response OutputChainData 12345678 "OrderCode": "Z" 12345678
Rs15Z == <<Ts(15000), Word("response"), Word("OutputChainData"),
           Digits("12345678", 8), Field("OrderCode", "Z"),
           Digits("12345678", 8)>>

\* response{12345678 "OrderCode": "A", "ReturnCode": "API0002"
\* (no timestamp)
RsANoTs == <<Word("response"), Brace, Digits("12345678", 8),
             Field("OrderCode", "A"), Field("ReturnCode", "API0002")>>

\* 00:00:03 request response{"ShopId": "S"     (a request and a response)
RqRs3 == <<Ts(3000), Word("request"), Word("response"), Brace,
           Field("ShopId", "S")>>

\* 00:00:03 Synchronize...BackgroundJob data {"TMCode": null, "TSCode": null } 1234567
\* (neither a request nor a response; a run of 7 digits)
Note == <<Ts(3000), Word(LongWord), Word("data"), Brace,
          UField("TMCode", "null"), UFieldSp("TSCode", "null"),
          Digits("1234567", 7)>>

LineSet ==
  {RqAS, RqA10, Rq0, RqBadA, RsA3, RsSA3, Rs3, Rs10, Rs15Z, RsANoTs, RqRs3,
   Note}

\* the log texts of a correlation run: up to MaxLines lines
LogTexts == UNION {[1..n -> LineSet] : n \in 0..MaxLines}

\* readings of the clock by new Date(), in epoch milliseconds
NowSet == {13000, 20000}

\* what the user types or uploads in the component specification
TextKey == <<RqAS, RsA3>>

TextTime == <<RqA10, <<Space>>, Rs15Z>>

TextNote == <<Note>>

TextBlank == << <<Space>> >>

TypedTexts == {<< >>, TextBlank, TextKey, TextTime, TextNote}

FileTexts == {<< >>, TextKey, TextTime}

\* Math.round(loaded / total * 100) of a progress event
ProgressValues == {50, 100}

\* the tag "all": the value of selectedTag that selects every record
AllTag == <<Piece("txt", "all", 3)>>

\* ------------------------------------------------------------------------
\* State
\* ------------------------------------------------------------------------
VARIABLES
  logInput,        \* the textarea's text
  parsedLogs,      \* LogEntry[]
  viewMode,        \* "raw" | "transaction"
  transactions,    \* Transaction[]
  isUploading,
  uploadProgress,
  readers,         \* contents of the FileReaders whose read is in flight
  timers,          \* pending setTimeout(() => setUploadProgress(0), 1000)
  pc,              \* position of the correlation run
  idx,             \* position of the current forEach in parsedLogs
  requestLookup,
  requestsByTime,
  groups,
  hist,            \* one entry per response the second phase has processed
  prev,            \* the sorts of the runs so far: array given, array left
  cleared,         \* clearAll ran and the user has not typed, analyzed or
                   \* chosen a file since
  filter,          \* "all" | "error" | "success"
  searchTerm,
  selectedTag,     \* a tag, or the tag "all"
  currentPage,
  sessionLogs,     \* index.tsx: logState.logs
  sessionList,     \* index.tsx: list of the sessions memo
  sessionUsed,     \* index.tsx: used (ids of the entries in a session)
  sessionIdx,      \* index.tsx: position of the outer loop, from 1
  sessionPc,       \* position in the sessions memo
  state,           \* JsonTool: input, output, error, fileName
  jsonReaders,     \* JsonTool: files whose read is in flight
  lastOp           \* JsonTool: the last handler that ran, and the type of
                   \* the transform when it was triggerTransform

vars == <<logInput, parsedLogs, viewMode, transactions, isUploading,
          uploadProgress, readers, timers, pc, idx, requestLookup,
          requestsByTime, groups, hist, prev, cleared, filter, searchTerm,
          selectedTag, currentPage, sessionLogs, sessionList, sessionUsed,
          sessionIdx, sessionPc, state, jsonReaders, lastOp>>

sessionVars == <<sessionLogs, sessionList, sessionUsed, sessionIdx, sessionPc>>

jsonVars == <<state, jsonReaders, lastOp>>

toolVars == <<sessionVars, jsonVars>>

pageVars == <<filter, searchTerm, selectedTag, currentPage>>

uiVars == <<logInput, viewMode, isUploading, uploadProgress, readers, timers,
            cleared, pageVars>>

runVars == <<pc, idx, requestLookup, requestsByTime, groups, hist, prev>>

analyzerVars == <<parsedLogs, transactions, uiVars, runVars>>

\* null
Null == "<null>"

\* index.tsx: logState.logs is empty and the memo has returned the empty list
InitSessionsIdle ==
  /\ sessionLogs = << >>
  /\ sessionList = << >>
  /\ sessionUsed = {}
  /\ sessionIdx = 1
  /\ sessionPc = "done"

\* JsonTool: useState<JSONState>
InitJsonTool ==
  /\ state = [input |-> << >>, output |-> << >>, error |-> Null,
              fileName |-> Null]
  /\ jsonReaders = << >>
  /\ lastOp = [op |-> "none", type |-> ""]

\* ------------------------------------------------------------------------
\* SpecCorr: one run of groupTransactions
\* ------------------------------------------------------------------------
InitCorr ==
  /\ \E text \in LogTexts, now \in NowSet :
       /\ logInput = text
       /\ parsedLogs = analyzeLogs(text, now)
  /\ viewMode = "transaction"
  /\ transactions = << >>
  /\ isUploading = FALSE
  /\ uploadProgress = 0
  /\ readers = << >>
  /\ timers = 0
  /\ pc = "index"
  /\ idx = 1
  /\ requestLookup = EmptyMap
  /\ requestsByTime = << >>
  /\ groups = << >>
  /\ hist = << >>
  /\ prev = << >>
  /\ cleared = FALSE
  /\ filter = "all"
  /\ searchTerm = ""
  /\ selectedTag = AllTag
  /\ currentPage = 1
  /\ InitSessionsIdle
  /\ InitJsonTool

\* first phase: one iteration of parsedLogs.forEach
IndexStep ==
  /\ pc = "index"
  /\ idx <= Len(parsedLogs)
  /\ LET st == indexLog(requestLookup, requestsByTime, parsedLogs[idx])
     IN /\ requestLookup' = st.requestLookup
        /\ requestsByTime' = st.requestsByTime
  /\ idx' = idx + 1
  /\ UNCHANGED <<parsedLogs, transactions, uiVars, pc, groups, hist, prev>>
  /\ UNCHANGED toolVars

\* the first forEach returns, the second starts
BeginMatch ==
  /\ pc = "index"
  /\ idx > Len(parsedLogs)
  /\ pc' = "match"
  /\ idx' = 1
  /\ UNCHANGED <<parsedLogs, transactions, uiVars, requestLookup,
                 requestsByTime, groups, hist, prev>>
  /\ UNCHANGED toolVars

\* second phase: one iteration of parsedLogs.forEach
MatchStep ==
  /\ pc = "match"
  /\ idx <= Len(parsedLogs)
  /\ LET log == parsedLogs[idx]
         st == matchLog(requestLookup, requestsByTime, groups, log)
     IN /\ requestLookup' = st.requestLookup
        /\ groups' = st.groups
        /\ hist' = IF isResponse(log)
                     THEN Append(hist,
                            [log |-> log,
                             lookup |-> requestLookup,
                             groups |-> groups,
                             m |-> matchResponse(requestLookup, requestsByTime,
                                                 groups, log)])
                     ELSE hist
  /\ idx' = idx + 1
  /\ UNCHANGED <<parsedLogs, transactions, uiVars, pc, requestsByTime, prev>>
  /\ UNCHANGED toolVars

\* the requests of byTime that no transaction of groups has as its request,
\* each as a pending transaction (which has no response; the field holds the
\* request)
RECURSIVE pendingOf(_, _, _)
pendingOf(byTime, i, gs) ==
  IF i > Len(byTime) THEN << >>
  ELSE (IF alreadyMatched(gs, byTime[i].log) THEN << >>
        ELSE << [id |-> <<byTime[i].keys[1], byTime[i].time>>,
                 requestLog |-> byTime[i].log,
                 responseLog |-> byTime[i].log,
                 duration |-> Num(0),
                 status |-> "pending",
                 keyInfo |-> [key |-> byTime[i].keys[1], timePaired |-> FALSE],
                 timestamp |-> byTime[i].log.timestamp] >>)
       \o pendingOf(byTime, i + 1, gs)

\* variant: the policy that also emits the unconsumed requests, as pending
SortStepPending ==
  /\ pc = "match"
  /\ idx > Len(parsedLogs)
  /\ groups' \in sortOutcomes(groups \o pendingOf(requestsByTime, 1, groups))
  /\ transactions' = groups'
  /\ prev' = Append(prev, [input |-> groups, output |-> groups'])
  /\ pc' = "done"
  /\ UNCHANGED <<parsedLogs, uiVars, idx, requestLookup, requestsByTime, hist>>
  /\ UNCHANGED toolVars

\* groups.sort(...); setTransactions(groups)
SortStep ==
  /\ pc = "match"
  /\ idx > Len(parsedLogs)
  /\ groups' \in engineSort(groups, prev)
  /\ transactions' = groups'
  /\ prev' = Append(prev, [input |-> groups, output |-> groups'])
  /\ pc' = "done"
  /\ UNCHANGED <<parsedLogs, uiVars, idx, requestLookup, requestsByTime, hist>>
  /\ UNCHANGED toolVars

NextCorr == IndexStep \/ BeginMatch \/ MatchStep \/ SortStep

SpecCorr == InitCorr /\ [][NextCorr]_vars

\* ------------------------------------------------------------------------
\* SpecTwice: groupTransactions is called a second time on the same
\* parsedLogs
\* ------------------------------------------------------------------------
\* variant: groups outlives the call (an array of the component, not a
\* local of groupTransactions)
RerunKeepGroups ==
  /\ pc = "done"
  /\ Len(prev) = 1
  /\ pc' = "index"
  /\ idx' = 1
  /\ requestLookup' = EmptyMap
  /\ requestsByTime' = << >>
  /\ hist' = << >>
  /\ UNCHANGED <<parsedLogs, transactions, uiVars, groups, prev>>
  /\ UNCHANGED toolVars

\* the second call: groups, requestLookup and requestsByTime are new locals
Rerun ==
  /\ pc = "done"
  /\ Len(prev) = 1
  /\ pc' = "index"
  /\ idx' = 1
  /\ requestLookup' = EmptyMap
  /\ requestsByTime' = << >>
  /\ groups' = << >>
  /\ hist' = << >>
  /\ UNCHANGED <<parsedLogs, transactions, uiVars, prev>>
  /\ UNCHANGED toolVars

NextTwice == NextCorr \/ Rerun

SpecTwice == InitCorr /\ [][NextTwice]_vars

\* ------------------------------------------------------------------------
\* Spec: the LogAnalyzer component.  Every handler is one action; the
\* effect on [viewMode, parsedLogs] runs with the handler that changed them.
\* ------------------------------------------------------------------------
InitAnalyzer ==
  /\ logInput = << >>
  /\ parsedLogs = << >>
  /\ viewMode = "raw"
  /\ transactions = << >>
  /\ isUploading = FALSE
  /\ uploadProgress = 0
  /\ readers = << >>
  /\ timers = 0
  /\ pc = "idle"
  /\ idx = 0
  /\ requestLookup = EmptyMap
  /\ requestsByTime = << >>
  /\ groups = << >>
  /\ hist = << >>
  /\ prev = << >>
  /\ cleared = FALSE
  /\ filter = "all"
  /\ searchTerm = ""
  /\ selectedTag = AllTag
  /\ currentPage = 1

\* the component is mounted; the other tools are idle
Init ==
  /\ InitAnalyzer
  /\ InitSessionsIdle
  /\ InitJsonTool

\* useEffect(() => { if (viewMode === 'transaction' && parsedLogs.length > 0)
\* groupTransactions() }, [viewMode, parsedLogs]): base is what the handler
\* itself left in transactions
groupEffect(changed, mode, logs, base) ==
  IF changed /\ mode = "transaction" /\ Len(logs) > 0
    THEN groupTransactions(logs)
    ELSE {base}

\* useEffect(() => setCurrentPage(1), [filter, searchTerm, selectedTag,
\* parsedLogs.length])
pageEffect(changed, page) == IF changed THEN 1 ELSE page

\* onChange of the textarea, or the input header's clear button
SetLogInput ==
  /\ \E text \in TypedTexts : logInput' = text
  /\ UNCHANGED <<parsedLogs, viewMode, transactions, isUploading,
                 uploadProgress, readers, timers, runVars>>
  /\ cleared' = FALSE
  /\ UNCHANGED pageVars
  /\ UNCHANGED toolVars

\* the analyze button (disabled while logInput is empty)
HandleAnalyze ==
  /\ logInput # << >>
  /\ \E now \in NowSet :
       IF \E i \in 1..Len(logInput) : trimNonEmpty(logInput[i])
         THEN /\ parsedLogs' = analyzeLogs(logInput, now)
              /\ transactions' \in
                   groupEffect(TRUE, viewMode, parsedLogs', transactions)
         ELSE UNCHANGED <<parsedLogs, transactions>>
  /\ UNCHANGED <<logInput, viewMode, isUploading, uploadProgress, readers,
                 timers, runVars>>
  /\ cleared' = FALSE
  /\ currentPage' = pageEffect(Len(parsedLogs') # Len(parsedLogs), currentPage)
  /\ UNCHANGED <<filter, searchTerm, selectedTag>>
  /\ UNCHANGED toolVars

\* the two view buttons
SetViewMode ==
  /\ \E mode \in {"raw", "transaction"} :
       /\ viewMode' = mode
       /\ transactions' \in
            groupEffect(mode # viewMode, mode, parsedLogs, transactions)
  /\ UNCHANGED <<logInput, parsedLogs, isUploading, uploadProgress, readers,
                 timers, runVars>>
  /\ UNCHANGED cleared
  /\ UNCHANGED pageVars
  /\ UNCHANGED toolVars

\* a file is chosen through the upload button (disabled while isUploading)
HandleFileUpload ==
  /\ ~isUploading
  /\ Len(readers) < MaxReaders
  /\ \E content \in FileTexts : readers' = Append(readers, content)
  /\ isUploading' = TRUE
  /\ uploadProgress' = 0
  /\ UNCHANGED <<logInput, parsedLogs, viewMode, transactions, timers, runVars>>
  /\ cleared' = FALSE
  /\ UNCHANGED pageVars
  /\ UNCHANGED toolVars

RemoveAt(seq, i) == SubSeq(seq, 1, i - 1) \o SubSeq(seq, i + 1, Len(seq))

\* reader.onprogress
ReaderProgress ==
  /\ Len(readers) > 0
  /\ \E progress \in ProgressValues : uploadProgress' = progress
  /\ UNCHANGED <<logInput, parsedLogs, viewMode, transactions, isUploading,
                 readers, timers, runVars>>
  /\ UNCHANGED cleared
  /\ UNCHANGED pageVars
  /\ UNCHANGED toolVars

\* reader.onload
ReaderLoad ==
  /\ timers < MaxTimers
  /\ \E r \in 1..Len(readers), now \in NowSet :
       /\ logInput' = readers[r]
       /\ parsedLogs' = analyzeLogs(readers[r], now)
       /\ transactions' \in
            groupEffect(TRUE, viewMode, parsedLogs', transactions)
       /\ readers' = RemoveAt(readers, r)
  /\ isUploading' = FALSE
  /\ uploadProgress' = 100
  /\ timers' = timers + 1
  /\ UNCHANGED <<viewMode, runVars>>
  /\ UNCHANGED cleared
  /\ currentPage' = pageEffect(Len(parsedLogs') # Len(parsedLogs), currentPage)
  /\ UNCHANGED <<filter, searchTerm, selectedTag>>
  /\ UNCHANGED toolVars

\* reader.onerror
ReaderError ==
  /\ \E r \in 1..Len(readers) : readers' = RemoveAt(readers, r)
  /\ isUploading' = FALSE
  /\ uploadProgress' = 0
  /\ UNCHANGED <<logInput, parsedLogs, viewMode, transactions, timers, runVars>>
  /\ UNCHANGED cleared
  /\ UNCHANGED pageVars
  /\ UNCHANGED toolVars

\* the timer set by onload fires
ProgressReset ==
  /\ timers > 0
  /\ timers' = timers - 1
  /\ uploadProgress' = 0
  /\ UNCHANGED <<logInput, parsedLogs, viewMode, transactions, isUploading,
                 readers, runVars>>
  /\ UNCHANGED cleared
  /\ UNCHANGED pageVars
  /\ UNCHANGED toolVars

\* the clear button
ClearAll ==
  /\ logInput' = << >>
  /\ parsedLogs' = << >>
  /\ transactions' = << >>
  /\ viewMode' = "raw"
  /\ uploadProgress' = 0
  /\ isUploading' = FALSE
  /\ UNCHANGED <<readers, timers, runVars>>
  /\ cleared' = TRUE
  /\ filter' = "all"
  /\ searchTerm' = ""
  /\ selectedTag' = AllTag
  /\ currentPage' = pageEffect(\/ filter # "all" \/ searchTerm # ""
                               \/ selectedTag # AllTag
                               \/ Len(parsedLogs) # 0,
                               currentPage)
  /\ UNCHANGED toolVars

Next ==
  \/ SetLogInput
  \/ HandleAnalyze
  \/ SetViewMode
  \/ HandleFileUpload
  \/ ReaderProgress
  \/ ReaderLoad
  \/ ReaderError
  \/ ProgressReset
  \/ ClearAll

Spec == Init /\ [][Next]_vars

\* ------------------------------------------------------------------------
\* SpecPage: the result list of the component, its filters and its pages
\* ------------------------------------------------------------------------
\* longest text, in lines, that is pasted in the page specification
MaxPageLines == 104

pageSize == 50

\* a text of n lines: a request, its response, an ERROR response, and
\* lines that are neither
PageText(n) ==
  [i \in 1..n |-> IF i = 1 THEN RqAS
                  ELSE IF i = 2 THEN RsA3
                  ELSE IF i = 3 THEN RsSA3 ELSE Note]

PageTexts == {PageText(n) : n \in {0, 1, pageSize, pageSize + 1, MaxPageLines}}

SearchTerms == {"", "response"}

\* statusMatch && statusMatch[1] === 'Success', or the return code API0001
isSuccess(log) ==
  \/ statusValue(log.message) = "Success"
  \/ \E i \in 1..Len(log.message) :
       /\ log.message[i].k = "field" /\ log.message[i].a = "ReturnCode"
       /\ log.message[i].b = "API0001"

isError(log) ==
  \/ log.level = "ERROR"
  \/ statusValue(log.message) # "" /\ statusValue(log.message) # "Success"
  \/ returnCodeError(log.message)

matchesLevel(log, f) ==
  \/ f = "all"
  \/ f = "success" /\ isSuccess(log)
  \/ f = "error" /\ isError(log)

\* (log.tags ?? []).includes(tag)
tagsInclude(log, tag) == \E t \in 1..Len(log.tags) : log.tags[t] = tag

\* the predicate of parsedLogs.filter
keepsLog(log, f, term, tag) ==
  IF term = "" /\ tag = AllTag THEN matchesLevel(log, f)
  ELSE /\ matchesLevel(log, f)
       /\ \/ term # "" /\ lowerIncludes(log.message, toLowerCase(term))
          \/ tag # AllTag /\ tagsInclude(log, tag)

keepsLogNow(log) == keepsLog(log, filter, searchTerm, selectedTag)

filteredLogs == SelectSeq(parsedLogs, keepsLogNow)

availableTags == {parsedLogs[i].tags[1] :
                    i \in {j \in 1..Len(parsedLogs) : parsedLogs[j].tags # << >>}}

\* tx.keyInfo.toLowerCase().includes(term): the kind and the value of the key
keyInfoIncludes(keyInfo, term) ==
  \E j \in 1..Len(keyInfo.key) :
    WordIncludes(toLowerCase(keyInfo.key[j]), term)

\* the predicate of transactions.filter
keepsTransaction(tx, f, term) ==
  /\ f = "all" \/ tx.status = f
  /\ \/ term = ""
     \/ lowerIncludes(tx.requestLog.message, toLowerCase(term))
     \/ lowerIncludes(tx.responseLog.message, toLowerCase(term))
     \/ keyInfoIncludes(tx.keyInfo, toLowerCase(term))

keepsTransactionNow(tx) == keepsTransaction(tx, filter, searchTerm)

filteredTransactions == SelectSeq(transactions, keepsTransactionNow)

currentListLength ==
  IF viewMode = "raw" THEN Len(filteredLogs) ELSE Len(filteredTransactions)

\* Math.ceil(n / d)
ceilDiv(n, d) == (n + d - 1) \div d

max(a, b) == IF a >= b THEN a ELSE b

min(a, b) == IF a <= b THEN a ELSE b

totalPages == max(1, ceilDiv(currentListLength, pageSize))

\* variant: the page as it is stored
safePageStored == currentPage

safePage == min(currentPage, totalPages)

startIndex == (safePage - 1) * pageSize

\* Array.prototype.slice(from, to), from and to counted from 0
slice(list, from, to) == SubSeq(list, from + 1, min(to, Len(list)))

paginatedLogs == slice(filteredLogs, startIndex, startIndex + pageSize)

paginatedTransactions ==
  slice(filteredTransactions, startIndex, startIndex + pageSize)

\* a text is pasted into the textarea
PasteLogInput ==
  /\ \E text \in PageTexts : logInput' = text
  /\ cleared' = FALSE
  /\ UNCHANGED <<parsedLogs, viewMode, transactions, isUploading,
                 uploadProgress, readers, timers, runVars, pageVars>>
  /\ UNCHANGED toolVars

\* the three level buttons
SetFilter ==
  /\ \E f \in {"all", "error", "success"} :
       /\ filter' = f
       /\ currentPage' = pageEffect(f # filter, currentPage)
  /\ UNCHANGED <<logInput, parsedLogs, viewMode, transactions, isUploading,
                 uploadProgress, readers, timers, runVars, cleared,
                 searchTerm, selectedTag>>
  /\ UNCHANGED toolVars

\* onChange of the search box
SetSearchTerm ==
  /\ \E term \in SearchTerms :
       /\ searchTerm' = term
       /\ currentPage' = pageEffect(term # searchTerm, currentPage)
  /\ UNCHANGED <<logInput, parsedLogs, viewMode, transactions, isUploading,
                 uploadProgress, readers, timers, runVars, cleared,
                 filter, selectedTag>>
  /\ UNCHANGED toolVars

\* the tag buttons: "all" and one per available tag
SetSelectedTag ==
  /\ \E tag \in {AllTag} \cup availableTags :
       /\ selectedTag' = tag
       /\ currentPage' = pageEffect(tag # selectedTag, currentPage)
  /\ UNCHANGED <<logInput, parsedLogs, viewMode, transactions, isUploading,
                 uploadProgress, readers, timers, runVars, cleared,
                 filter, searchTerm>>
  /\ UNCHANGED toolVars

\* the previous-page button (disabled on page 1)
PreviousPage ==
  /\ safePage # 1
  /\ currentPage' = max(1, currentPage - 1)
  /\ UNCHANGED <<logInput, parsedLogs, viewMode, transactions, isUploading,
                 uploadProgress, readers, timers, runVars, cleared,
                 filter, searchTerm, selectedTag>>
  /\ UNCHANGED toolVars

\* the next-page button (disabled on the last page)
FollowingPage ==
  /\ safePage # totalPages
  /\ currentPage' = min(totalPages, currentPage + 1)
  /\ UNCHANGED <<logInput, parsedLogs, viewMode, transactions, isUploading,
                 uploadProgress, readers, timers, runVars, cleared,
                 filter, searchTerm, selectedTag>>
  /\ UNCHANGED toolVars

NextPage ==
  \/ PasteLogInput
  \/ HandleAnalyze
  \/ SetViewMode
  \/ SetFilter
  \/ SetSearchTerm
  \/ SetSelectedTag
  \/ PreviousPage
  \/ FollowingPage

SpecPage == Init /\ [][NextPage]_vars

\* ------------------------------------------------------------------------
\* SpecSessions: the sessions memo of src/index.tsx, one iteration of its
\* outer loop per step, on the entries that handleLogUpload made
\* ------------------------------------------------------------------------
\* longest uploaded log, in lines
MaxSessionLines == 3

\* a line of the file: its leading timestamp (0 when it has none; the
\* timestamps have one fixed-width form, so localeCompare orders them as
\* numbers and puts the empty string first) and the words after it
SessionLine(timestamp, content) ==
  [timestamp |-> timestamp, content |-> content]

SRq == SessionLine(1, <<"Request", "TM12345678">>)

SRqNoId == SessionLine(0, <<"request", "TM1234">>)

SRs == SessionLine(2, <<"Response", "TM12345678", "success">>)

SRsOther == SessionLine(3, <<"response", "TS12345678", "TM87654321", "error">>)

SBoth == SessionLine(2, <<"Request", "Response", "fail">>)

SNote == SessionLine(1, <<"started">>)

SessionLineSet == {SRq, SRqNoId, SRs, SRsOther, SBoth, SNote}

SessionTexts ==
  UNION {[1..n -> SessionLineSet] : n \in 0..MaxSessionLines}

\* content.toLowerCase().includes(s)
contentIncludes(content, s) ==
  \E w \in 1..Len(content) : WordIncludes(toLowerCase(content[w]), s)

\* the pattern of ID_PATTERNS that the word matches, from 1, or 0: TM, TS or
\* TG and at least 8 digits, or J and at least 15
idPattern(word) ==
  CASE word = "TM12345678" -> 1
    [] word = "TM87654321" -> 1
    [] word = "TS12345678" -> 2
    [] OTHER -> 0

RECURSIVE addMatches(_, _, _, _)
\* text.match(p), each match added to the Set ids
addMatches(ids, content, p, w) ==
  IF w > Len(content) THEN ids
  ELSE IF idPattern(content[w]) = p
            /\ ~\E k \in 1..Len(ids) : ids[k] = content[w]
       THEN addMatches(Append(ids, content[w]), content, p, w + 1)
       ELSE addMatches(ids, content, p, w + 1)

\* extractAllIds(text, null)
extractAllIds(content) ==
  addMatches(addMatches(addMatches(addMatches(<< >>, content, 1, 1),
                                   content, 2, 1), content, 3, 1),
             content, 4, 1)

\* the entry handleLogUpload makes of the line at index i, from 0; no line
\* of the catalog has a colon after its timestamp
processLine(line, i) ==
  LET request == contentIncludes(line.content, "request")
      response == contentIncludes(line.content, "response")
  IN [id |-> i,
      timestamp |-> line.timestamp,
      tag |-> IF request THEN "REQ" ELSE IF response THEN "RES" ELSE "LOG",
      content |-> line.content,
      isRequest |-> request,
      isResponse |-> response,
      extractedIds |-> extractAllIds(line.content)]

\* lines.map((line, idx) => ...)
processLines(text) == [k \in 1..Len(text) |-> processLine(text[k], k - 1)]

\* variant: no entry counts as used
isUsedNever(used, log) == FALSE

\* used.has(log.id)
isUsed(used, log) == log.id \in used

\* log.extractedIds.some(id => next.extractedIds.includes(id))
sharesId(log, next) ==
  \E a \in 1..Len(log.extractedIds), b \in 1..Len(next.extractedIds) :
    log.extractedIds[a] = next.extractedIds[b]

\* the session of a request at index i: request and response hold one entry
\* or none
requestSession(log, i) ==
  [id |-> <<"s", log.id>>,
   sessionId |-> IF log.extractedIds # << >>
                 THEN <<"id", log.extractedIds[1]>> ELSE <<"REQ", i>>,
   request |-> <<log>>,
   response |-> << >>,
   others |-> << >>,
   timestamp |-> log.timestamp,
   status |-> Null]

\* the session of an entry that is in no other one
otherSession(l) ==
  [id |-> <<"u", l.id>>,
   sessionId |-> <<"tag", l.tag>>,
   request |-> << >>,
   response |-> << >>,
   others |-> <<l>>,
   timestamp |-> l.timestamp,
   status |-> Null]

\* the status a response gives its session
statusAfter(session, content) ==
  IF contentIncludes(content, "success") THEN "success"
  ELSE IF contentIncludes(content, "fail") \/ contentIncludes(content, "error")
       THEN "failure"
       ELSE session.status

RECURSIVE findResponse(_, _, _, _, _)
\* the inner loop from position j: the session and used as it leaves them
findResponse(logs, j, log, session, used) ==
  IF j > Len(logs) THEN [session |-> session, used |-> used]
  ELSE IF isUsed(used, logs[j])
       THEN findResponse(logs, j + 1, log, session, used)
       ELSE IF /\ logs[j].isResponse
               /\ sharesId(log, logs[j]) \/ session.response = << >>
            THEN [session |-> [session EXCEPT
                                 !.response = <<logs[j]>>,
                                 !.status = statusAfter(session,
                                                        logs[j].content)],
                  used |-> used \cup {logs[j].id}]
            ELSE findResponse(logs, j + 1, log, session, used)

\* the sessions that logs.forEach pushes for the entries not in used
othersOf(logs, used) ==
  LET rest == {k \in 1..Len(logs) : ~isUsed(used, logs[k])}
      nth(n) == CHOOSE k \in rest : Cardinality({m \in rest : m <= k}) = n
  IN [n \in 1..Cardinality(rest) |-> otherSession(logs[nth(n)])]

\* sorted holds sessions from the latest timestamp on; s goes after those
\* that the comparator does not put behind it
sessionInsert(sorted, s) ==
  LET k == Cardinality({q \in 1..Len(sorted) :
                          sorted[q].timestamp >= s.timestamp})
  IN SubSeq(sorted, 1, k) \o <<s>> \o SubSeq(sorted, k + 1, Len(sorted))

RECURSIVE sortSessions(_, _)
\* list.sort((a, b) => b.timestamp.localeCompare(a.timestamp)), stable, of
\* the first n sessions
sortSessions(list, n) ==
  IF n = 0 THEN << >> ELSE sessionInsert(sortSessions(list, n - 1), list[n])

\* logState.logs has been set and the memo starts
InitSessions ==
  /\ InitAnalyzer
  /\ InitJsonTool
  /\ \E text \in SessionTexts : sessionLogs = processLines(text)
  /\ sessionList = << >>
  /\ sessionUsed = {}
  /\ sessionIdx = 1
  /\ sessionPc = "pair"

\* one iteration of the outer loop
PairStep ==
  /\ sessionPc = "pair"
  /\ sessionIdx <= Len(sessionLogs)
  /\ LET log == sessionLogs[sessionIdx]
     IN IF isUsed(sessionUsed, log) \/ ~log.isRequest
        THEN UNCHANGED <<sessionList, sessionUsed>>
        ELSE LET found == findResponse(sessionLogs, sessionIdx + 1, log,
                                       requestSession(log, sessionIdx - 1),
                                       sessionUsed \cup {log.id})
             IN /\ sessionList' = Append(sessionList, found.session)
                /\ sessionUsed' = found.used
  /\ sessionIdx' = sessionIdx + 1
  /\ UNCHANGED <<sessionLogs, sessionPc, jsonVars, analyzerVars>>

\* logState.logs.forEach after the loop
OthersStep ==
  /\ sessionPc = "pair"
  /\ sessionIdx > Len(sessionLogs)
  /\ sessionList' = sessionList \o othersOf(sessionLogs, sessionUsed)
  /\ sessionPc' = "sort"
  /\ UNCHANGED <<sessionLogs, sessionUsed, sessionIdx, jsonVars, analyzerVars>>

\* return list.sort(...)
SortSessions ==
  /\ sessionPc = "sort"
  /\ sessionList' = sortSessions(sessionList, Len(sessionList))
  /\ sessionPc' = "done"
  /\ UNCHANGED <<sessionLogs, sessionUsed, sessionIdx, jsonVars, analyzerVars>>

NextSessions ==
  \/ PairStep
  \/ OthersStep
  \/ SortSessions

SpecSessions == InitSessions /\ [][NextSessions]_vars

\* ------------------------------------------------------------------------
\* SpecJson: the JsonTool component (src/pages/JsonTool.tsx) with the
\* transformer it imports
\* ------------------------------------------------------------------------
\* most reads of files in flight
MaxJsonReaders == 1

\* the lexical items of a text: string literals, numbers, the literals
\* null, true and false, punctuation, white space, and the characters that
\* cleanJsonString treats
JStr(a) == <<"str", a>>

JNum(n) == <<"num", n>>

JLit(w) == <<"lit", w>>

JSym(c) == <<"sym", c>>

JWs(c) == <<"ws", c>>

JOdd(c) == <<"odd", c>>

\* {"a":1}
JObj == <<JSym("{"), JStr("a"), JSym(":"), JNum("1"), JSym("}")>>

\* {"a"：1} with the full-width colon
JObjWide == <<JSym("{"), JStr("a"), JOdd("fwcolon"), JNum("1"), JSym("}")>>

\* ["s", null,true] behind a zero-width space
JArrZw == <<JOdd("zwsp"), JSym("["), JStr("s"), JSym(","), JWs(" "),
            JLit("null"), JSym(","), JLit("true"), JSym("]")>>

\* [ 1 ] on three lines
JArrLines == <<JSym("["), JWs("\n"), JNum("1"), JWs("\n"), JSym("]")>>

\* {"a":
JOpen == <<JSym("{"), JStr("a"), JSym(":")>>

\* {"a":1,} with a no-break space at the end
JComma == <<JSym("{"), JStr("a"), JSym(":"), JNum("1"), JSym(","),
            JSym("}"), JOdd("nbsp")>>

\* the text of the sample button
JSample ==
  <<JSym("{"), JWs("\n"), JWs("  "),
    JStr("id"), JSym(":"), JWs(" "), JNum("12345"), JSym(","),
    JWs("\n"), JWs("  "),
    JStr("name"), JSym(":"), JWs(" "), JStr("Jane Doe"), JSym(","),
    JWs("\n"), JWs("  "),
    JStr("email"), JSym(":"), JWs(" "), JStr("jane@example.com"), JSym(","),
    JWs("\n"), JWs("  "),
    JStr("active"), JSym(":"), JWs(" "), JLit("true"), JSym(","),
    JWs("\n"), JWs("  "),
    JStr("createdAt"), JSym(":"), JWs(" "), JStr("2023-10-27T10:00:00Z"),
    JSym(","), JWs("\n"), JWs("  "),
    JStr("metadata"), JSym(":"), JWs(" "), JSym("{"),
    JWs("\n"), JWs("  "), JWs("  "),
    JStr("source"), JSym(":"), JWs(" "), JStr("web"), JSym(","),
    JWs("\n"), JWs("  "), JWs("  "),
    JStr("tags"), JSym(":"), JWs(" "), JSym("["), JStr("dev"), JSym(","),
    JWs(" "), JStr("beta"), JSym("]"), JSym(","),
    JWs("\n"), JWs("  "), JWs("  "),
    JStr("preferences"), JSym(":"), JWs(" "), JSym("{"),
    JWs("\n"), JWs("  "), JWs("  "), JWs("  "),
    JStr("theme"), JSym(":"), JWs(" "), JStr("dark"), JSym(","),
    JWs("\n"), JWs("  "), JWs("  "), JWs("  "),
    JStr("notifications"), JSym(":"), JWs(" "), JLit("true"),
    JWs("\n"), JWs("  "), JWs("  "), JSym("}"),
    JWs("\n"), JWs("  "), JSym("}"),
    JWs("\n"), JSym("}")>>

\* what is typed or pasted into the input
JsonTexts == {<< >>, JObj, JObjWide, JArrZw, JArrLines, JOpen, JComma}

\* the files that are chosen: name and content
JsonFiles == {[name |-> "a.json", content |-> JObj],
              [name |-> "b.json", content |-> JObjWide]}

TransformTypes == {"nullify", "smart", "compact", "format", "clean_format"}

ErrInvalidJson == "invalid JSON"

ErrTooLarge == "file too large"

ErrFileType == "not a JSON file"

ErrReadFailed == "read failed"

\* --- cleanJsonString ---
\* the replacements: full-width colon and comma, no-break space
cleanItem(item) ==
  CASE item = JOdd("fwcolon") -> JSym(":")
    [] item = JOdd("fwcomma") -> JSym(",")
    [] item = JOdd("nbsp") -> JWs(" ")
    [] OTHER -> item

\* what the removals leave: no zero-width character, no control character
staysAfterClean(item) ==
  /\ item # JOdd("zwsp")
  /\ item # JWs("\n")

isJsonSpace(item) == item[1] = "ws"

\* String.prototype.trim
trimText(text) ==
  LET inked == {k \in 1..Len(text) : ~isJsonSpace(text[k])}
  IN IF inked = {} THEN << >>
     ELSE SubSeq(text,
                 CHOOSE k \in inked : \A m \in inked : k <= m,
                 CHOOSE k \in inked : \A m \in inked : k >= m)

cleanJsonString(jsonStr) ==
  trimText(SelectSeq([k \in 1..Len(jsonStr) |-> cleanItem(jsonStr[k])],
                     staysAfterClean))

\* --- JSON.parse ---
\* values: t is the type, v the text of a scalar, keys and kids the member
\* names and the members or elements
scalar(t, v) == [t |-> t, v |-> v, keys |-> << >>, kids |-> << >>]

array(kids) == [t |-> "array", v |-> "", keys |-> << >>, kids |-> kids]

object(keys, kids) == [t |-> "object", v |-> "", keys |-> keys, kids |-> kids]

parseFail == [ok |-> FALSE, value |-> scalar("none", ""), next |-> 0]

parseOk(value, next) == [ok |-> TRUE, value |-> value, next |-> next]

tokAt(toks, i) == IF i <= Len(toks) THEN toks[i] ELSE <<"end", "">>

\* obj[key] = value: a repeated name keeps its place and takes the value
setMember(obj, key, value) ==
  IF \E k \in 1..Len(obj.keys) : obj.keys[k] = key
  THEN [obj EXCEPT !.kids = [k \in 1..Len(obj.kids) |->
                               IF obj.keys[k] = key THEN value
                               ELSE obj.kids[k]]]
  ELSE [obj EXCEPT !.keys = Append(obj.keys, key),
                   !.kids = Append(obj.kids, value)]

RECURSIVE parseValue(_, _)
RECURSIVE parseElements(_, _, _)
RECURSIVE parseMembers(_, _, _)
\* a value at position i of the items without white space
parseValue(toks, i) ==
  LET tok == tokAt(toks, i)
  IN CASE tok[1] = "str" -> parseOk(scalar("string", tok[2]), i + 1)
       [] tok[1] = "num" -> parseOk(scalar("number", tok[2]), i + 1)
       [] tok = JLit("null") -> parseOk(scalar("null", "null"), i + 1)
       [] tok[1] = "lit" /\ tok # JLit("null") ->
            parseOk(scalar("boolean", tok[2]), i + 1)
       [] tok = JSym("[") ->
            IF tokAt(toks, i + 1) = JSym("]")
            THEN parseOk(array(<< >>), i + 2)
            ELSE parseElements(toks, i + 1, << >>)
       [] tok = JSym("{") ->
            IF tokAt(toks, i + 1) = JSym("}")
            THEN parseOk(object(<< >>, << >>), i + 2)
            ELSE parseMembers(toks, i + 1, object(<< >>, << >>))
       [] OTHER -> parseFail

\* the elements of an array from position i, kids being those before
parseElements(toks, i, kids) ==
  LET e == parseValue(toks, i)
  IN IF ~e.ok THEN parseFail
     ELSE IF tokAt(toks, e.next) = JSym(",")
          THEN parseElements(toks, e.next + 1, Append(kids, e.value))
          ELSE IF tokAt(toks, e.next) = JSym("]")
               THEN parseOk(array(Append(kids, e.value)), e.next + 1)
               ELSE parseFail

\* the members of an object from position i, obj holding those before
parseMembers(toks, i, obj) ==
  IF tokAt(toks, i)[1] # "str" \/ tokAt(toks, i + 1) # JSym(":")
  THEN parseFail
  ELSE LET e == parseValue(toks, i + 2)
       IN IF ~e.ok THEN parseFail
          ELSE IF tokAt(toks, e.next) = JSym(",")
               THEN parseMembers(toks, e.next + 1,
                                 setMember(obj, toks[i][2], e.value))
               ELSE IF tokAt(toks, e.next) = JSym("}")
                    THEN parseOk(setMember(obj, toks[i][2], e.value),
                                 e.next + 1)
                    ELSE parseFail

isInk(item) == ~isJsonSpace(item)

\* JSON.parse(text): ok is false when it throws
jsonParse(text) ==
  LET toks == SelectSeq(text, isInk)
      r == parseValue(toks, 1)
  IN IF r.ok /\ r.next = Len(toks) + 1 THEN r ELSE parseFail

\* --- JSON.stringify ---
scalarText(value) ==
  IF value.t = "string" THEN <<JStr(value.v)>>
  ELSE IF value.t = "number" THEN <<JNum(value.v)>>
  ELSE <<JLit(value.v)>>

opening(value) == IF value.t = "array" THEN JSym("[") ELSE JSym("{")

closing(value) == IF value.t = "array" THEN JSym("]") ELSE JSym("}")

RECURSIVE stringify(_)
RECURSIVE stringifyKids(_, _)
\* JSON.stringify(value)
stringify(value) ==
  IF value.t \in {"array", "object"}
  THEN <<opening(value)>> \o stringifyKids(value, 1) \o <<closing(value)>>
  ELSE scalarText(value)

\* the members or elements from the k-th on
stringifyKids(value, k) ==
  IF k > Len(value.kids) THEN << >>
  ELSE (IF k > 1 THEN <<JSym(",")>> ELSE << >>)
       \o (IF value.t = "object"
           THEN <<JStr(value.keys[k]), JSym(":")>> ELSE << >>)
       \o stringify(value.kids[k])
       \o stringifyKids(value, k + 1)

\* a line break and the indentation of depth d
newline(d) == <<JWs("\n")>> \o [k \in 1..d |-> JWs("  ")]

RECURSIVE stringifyIndented(_, _)
RECURSIVE stringifyIndentedKids(_, _, _)
\* JSON.stringify(value, null, 2), value at depth d
stringifyIndented(value, d) ==
  IF value.t \in {"array", "object"} /\ value.kids # << >>
  THEN <<opening(value)>> \o stringifyIndentedKids(value, d, 1)
       \o newline(d) \o <<closing(value)>>
  ELSE IF value.t \in {"array", "object"}
       THEN <<opening(value), closing(value)>>
       ELSE scalarText(value)

stringifyIndentedKids(value, d, k) ==
  IF k > Len(value.kids) THEN << >>
  ELSE (IF k > 1 THEN <<JSym(",")>> ELSE << >>)
       \o newline(d + 1)
       \o (IF value.t = "object"
           THEN <<JStr(value.keys[k]), JSym(":"), JWs(" ")>> ELSE << >>)
       \o stringifyIndented(value.kids[k], d + 1)
       \o stringifyIndentedKids(value, d, k + 1)

\* --- the transformer ---
RECURSIVE nullifyTransform(_)
nullifyTransform(obj) ==
  IF obj.t \in {"array", "object"}
  THEN [obj EXCEPT !.kids = [k \in 1..Len(obj.kids) |->
                               nullifyTransform(obj.kids[k])]]
  ELSE scalar("null", "null")

\* isDateString on the strings of the texts
isDateString(val) == val = "2023-10-27T10:00:00Z"

\* new Date(val).toISOString() on the strings of the texts
dateToISOString(val) ==
  IF val = "2023-10-27T10:00:00Z" THEN "2023-10-27T10:00:00.000Z" ELSE val

\* what Math.random makes of a number: 0, or a negative number from -1
\* to -100
RandomNumbers == {"0", "-1", "-100"}

RECURSIVE smartTransform(_)
RECURSIVE smartKids(_, _)
\* the values smartTransform may return
smartTransform(obj) ==
  IF obj.t \in {"array", "object"}
  THEN {[obj EXCEPT !.kids = kids] : kids \in smartKids(obj.kids, Len(obj.kids))}
  ELSE IF obj.t = "string"
       THEN {scalar("string", IF isDateString(obj.v)
                              THEN dateToISOString(obj.v) ELSE "")}
       ELSE IF obj.t = "number"
            THEN {scalar("number", n) : n \in RandomNumbers}
            ELSE IF obj.t = "boolean"
                 THEN {scalar("boolean", "false")}
                 ELSE {scalar("null", "null")}

\* the first n members or elements, transformed
smartKids(kids, n) ==
  IF n = 0 THEN {<< >>}
  ELSE {Append(before, kid) : before \in smartKids(kids, n - 1),
                              kid \in smartTransform(kids[n])}

\* --- the component ---
\* variant: the input is parsed as it is
inputStrRaw(type, input) == input

\* the text that triggerTransform hands to JSON.parse
inputStr(type, input) ==
  IF type = "clean_format" THEN cleanJsonString(input) ELSE input

\* the outputs of a transform of the parsed value
outputsOf(type, parsed) ==
  CASE type = "nullify" -> {stringifyIndented(nullifyTransform(parsed), 0)}
    [] type = "smart" ->
         {stringifyIndented(transformed, 0) :
            transformed \in smartTransform(parsed)}
    [] type = "compact" -> {stringify(parsed)}
    [] type = "format" -> {stringifyIndented(parsed, 0)}
    [] type = "clean_format" -> {stringifyIndented(parsed, 0)}

\* the states triggerTransform may set
triggerTransform(type, st) ==
  LET r == jsonParse(inputStr(type, st.input))
  IN IF r.ok
     THEN {[st EXCEPT !.output = output, !.error = Null] :
             output \in outputsOf(type, r.value)}
     ELSE {[st EXCEPT !.error = ErrInvalidJson]}

\* the five transform buttons
TriggerTransform ==
  /\ \E type \in TransformTypes :
       /\ state' \in triggerTransform(type, state)
       /\ lastOp' = [op |-> "transform", type |-> type]
  /\ UNCHANGED <<jsonReaders, sessionVars, analyzerVars>>

\* onChange of the input
HandleInputChange ==
  /\ \E text \in JsonTexts :
       state' = [state EXCEPT !.input = text, !.error = Null]
  /\ lastOp' = [op |-> "edit", type |-> ""]
  /\ UNCHANGED <<jsonReaders, sessionVars, analyzerVars>>

\* the sample button
LoadSample ==
  /\ state' = [state EXCEPT !.input = JSample]
  /\ lastOp' = [op |-> "sample", type |-> ""]
  /\ UNCHANGED <<jsonReaders, sessionVars, analyzerVars>>

\* a file is chosen: it is too large, or of another type, or its read starts
JsonHandleFileUpload ==
  /\ \/ /\ \E message \in {ErrTooLarge, ErrFileType} :
             state' = [state EXCEPT !.error = message]
        /\ UNCHANGED jsonReaders
     \/ /\ Len(jsonReaders) < MaxJsonReaders
        /\ \E file \in JsonFiles : jsonReaders' = Append(jsonReaders, file)
        /\ UNCHANGED state
  /\ lastOp' = [op |-> "upload", type |-> ""]
  /\ UNCHANGED <<sessionVars, analyzerVars>>

\* reader.onload
JsonReaderLoad ==
  /\ \E r \in 1..Len(jsonReaders) :
       /\ state' = [state EXCEPT !.input = jsonReaders[r].content,
                                 !.fileName = jsonReaders[r].name,
                                 !.error = Null]
       /\ jsonReaders' = RemoveAt(jsonReaders, r)
  /\ lastOp' = [op |-> "load", type |-> ""]
  /\ UNCHANGED <<sessionVars, analyzerVars>>

\* reader.onerror
JsonReaderError ==
  /\ \E r \in 1..Len(jsonReaders) : jsonReaders' = RemoveAt(jsonReaders, r)
  /\ state' = [state EXCEPT !.error = ErrReadFailed]
  /\ lastOp' = [op |-> "readerror", type |-> ""]
  /\ UNCHANGED <<sessionVars, analyzerVars>>

\* the clear button
JsonClearAll ==
  /\ state' = [input |-> << >>, output |-> << >>, error |-> Null,
               fileName |-> Null]
  /\ lastOp' = [op |-> "clear", type |-> ""]
  /\ UNCHANGED <<jsonReaders, sessionVars, analyzerVars>>

NextJson ==
  \/ TriggerTransform
  \/ HandleInputChange
  \/ LoadSample
  \/ JsonHandleFileUpload
  \/ JsonReaderLoad
  \/ JsonReaderError
  \/ JsonClearAll

SpecJson == Init /\ [][NextJson]_vars

\* ------------------------------------------------------------------------
\* Properties of one correlation run (SpecCorr)
\* ------------------------------------------------------------------------
\* the line of an entry carries a date-time Date accepts
timestampParses(log) ==
  \E i \in 1..Len(log.message) :
    log.message[i].k = "ts" /\ log.message[i].a = "ok"
    /\ \A j \in 1..(i - 1) : log.message[j].k # "ts"

keyMatched(g) == ~g.keyInfo.timePaired

\* positions of the requests of parsedLogs that no transaction of gs has as
\* its request and that lie in the window before responseTime
WindowCandidates(gs, responseTime) ==
  {i \in 1..Len(parsedLogs) :
     /\ isRequest(parsedLogs[i])
     /\ \A g \in 1..Len(gs) : gs[g].requestLog # parsedLogs[i]
     /\ Gt(Minus(responseTime, getTime(parsedLogs[i].timestamp)), Num(0))
     /\ Lt(Minus(responseTime, getTime(parsedLogs[i].timestamp)), Num(Window))}

\* keys of the entry's response that the lookup held when it was processed
HitsOf(e) ==
  {k \in 1..Len(extractKeys(e.log.message)) :
     extractKeys(e.log.message)[k] \in DOMAIN e.lookup}

\* C1: no two key-matched transactions of a run have the same request
\* record.
C1_KeyMatchedRequestOnce ==
  \A i, j \in 1..Len(groups) :
    (i # j /\ keyMatched(groups[i]) /\ keyMatched(groups[j]))
      => groups[i].requestLog # groups[j].requestLog

\* C2: a transaction whose request and response lines both carry a
\* timestamp that parses has a duration of at least 0.
C2_DurationNonNegative ==
  \A g \in 1..Len(groups) :
    (timestampParses(groups[g].requestLog)
       /\ timestampParses(groups[g].responseLog))
      => groups[g].duration.v >= 0

\* C3: every request, with keys or without, is in the time-ordered request
\* list once the first phase is over, and the run over a keyless request at
\* 00:00:00 followed by a keyless response at 00:00:03 ends with exactly
\* one transaction, paired by time, of 3000 ms.
C3_KeylessRequestPairedByTime ==
  /\ pc # "index" =>
       \A i \in 1..Len(parsedLogs) :
         isRequest(parsedLogs[i]) =>
           \E r \in 1..Len(requestsByTime) :
             requestsByTime[r].log = parsedLogs[i]
  /\ (pc = "done" /\ logInput = <<Rq0, Rs3>>) =>
       /\ Len(transactions) = 1
       /\ transactions[1].keyInfo.timePaired
       /\ transactions[1].duration = Num(3000)

\* C4: a response that has a key in the lookup table when it is processed
\* is paired, by key and without entering the time pairing, with the request
\* the table holds under the first such key of its extraction order.
C4_FirstKeyInLookupWins ==
  \A h \in 1..Len(hist) :
    LET e == hist[h]
        keys == extractKeys(e.log.message)
    IN \A k \in HitsOf(e) :
         (\A j \in HitsOf(e) : k <= j) =>
           /\ ~e.m.fallback
           /\ \E g \in 1..Len(groups) :
                /\ groups[g].responseLog = e.log
                /\ groups[g].requestLog = e.lookup[keys[k]]
                /\ keyMatched(groups[g])
                /\ groups[g].keyInfo.key = keys[k]

\* C4 witness: a run has ended in which a response had two keys in the
\* table, registered for two different requests.
C4_Witness ==
  /\ pc = "done"
  /\ \E h \in 1..Len(hist) :
       \E k1, k2 \in HitsOf(hist[h]) :
         LET keys == extractKeys(hist[h].log.message)
         IN hist[h].lookup[keys[k1]] # hist[h].lookup[keys[k2]]

\* C5: a response with no key in the lookup table is paired with a request
\* of smallest delta among the requests that are in no transaction yet and
\* have 0 < delta < 10000 ms, and with none when there is no such request.
C5_ClosestUnmatchedRequestInWindow ==
  \A h \in 1..Len(hist) :
    LET e == hist[h]
        responseTime == getTime(e.log.timestamp)
        cand == WindowCandidates(e.groups, responseTime)
        delta(i) == Minus(responseTime, getTime(parsedLogs[i].timestamp)).v
    IN HitsOf(e) = {} =>
         IF cand = {}
           THEN e.m.method = ""
           ELSE /\ e.m.method = "Time"
                /\ \E i \in cand :
                     /\ e.m.request = parsedLogs[i]
                     /\ \A j \in cand : delta(i) <= delta(j)

\* C6: each response record is the response of at most one transaction,
\* and there are never more transactions than response records.
C6_OneTransactionPerResponse ==
  /\ \A i, j \in 1..Len(groups) :
       i # j => groups[i].responseLog # groups[j].responseLog
  /\ Len(groups) <=
       Cardinality({i \in 1..Len(parsedLogs) : isResponse(parsedLogs[i])})
  /\ Len(transactions) <=
       Cardinality({i \in 1..Len(parsedLogs) : isResponse(parsedLogs[i])})

\* C6 witness: a run has ended with two transactions, and one response had
\* both a key in the table and a request in its window.
C6_Witness ==
  /\ pc = "done"
  /\ Len(transactions) >= 2
  /\ \E h \in 1..Len(hist) :
       /\ HitsOf(hist[h]) # {}
       /\ WindowCandidates(hist[h].groups, getTime(hist[h].log.timestamp)) # {}

\* C7: no two transactions of a run have the same id.
C7_IdsUnique ==
  \A i, j \in 1..Len(groups) : i # j => groups[i].id # groups[j].id

\* C8: a transaction whose request line or response line carries no
\* timestamp that parses has duration 0.
C8_NoTimestampNoDuration ==
  \A g \in 1..Len(groups) :
    (~timestampParses(groups[g].requestLog)
       \/ ~timestampParses(groups[g].responseLog))
      => groups[g].duration = Num(0)

C9_TransactionsOfCurrentLogs ==
  /\ \A g \in 1..Len(transactions) :
       /\ \E i \in 1..Len(parsedLogs) :
            parsedLogs[i] = transactions[g].requestLog
       /\ \E i \in 1..Len(parsedLogs) :
            parsedLogs[i] = transactions[g].responseLog
  /\ viewMode = "transaction" => transactions \in groupTransactions(parsedLogs)

\* C27: after clearAll the log input, the records and the transactions
\* stay empty until the user types, analyzes or chooses a file, whatever
\* callbacks of earlier file reads fire; and at most one file read is in
\* flight at any time.
C27_ClearIsFinal ==
  /\ cleared => (logInput = << >> /\ parsedLogs = << >> /\ transactions = << >>)
  /\ Len(readers) <= 1

\* ------------------------------------------------------------------------
\* Properties of the pages (SpecPage)
\* ------------------------------------------------------------------------
\* the list on display and its page
shownList == IF viewMode = "raw" THEN filteredLogs ELSE filteredTransactions

shownPage == IF viewMode = "raw" THEN paginatedLogs ELSE paginatedTransactions

\* C28: the effective page is at least 1 and at most totalPages, totalPages
\* is the least number of pages of 50, at least 1, that hold the list on
\* display, and the page on display is not empty when the list is not.
C28_PageInRange ==
  /\ 1 <= safePage
  /\ safePage <= totalPages
  /\ totalPages >= 1
  /\ totalPages * pageSize >= Len(shownList)
  /\ totalPages > 1 => (totalPages - 1) * pageSize < Len(shownList)
  /\ shownList # << >> => shownPage # << >>

\* C28 witness: the third page of the raw records was on display when the
\* view changed to the transactions, which fill less than one page: the
\* stored page is beyond the last page of the list on display.
C28_Witness ==
  /\ viewMode = "transaction"
  /\ currentPage > 2
  /\ currentPage > totalPages
  /\ shownPage # << >>

\* ------------------------------------------------------------------------
\* Properties of the sessions memo (SpecSessions)
\* ------------------------------------------------------------------------
\* the places of the entry in the sessions: session and role
placesOf(log) ==
  {<<s, role>> \in (1..Len(sessionList)) \X {"request", "response", "others"} :
     \E k \in 1..Len(sessionList[s][role]) : sessionList[s][role][k] = log}

\* C29: when the memo has returned, every entry of the log is in exactly
\* one session, as its request, as its response or as its only others
\* entry, and no entry is the response of two sessions.
C29_SessionsPartition ==
  sessionPc = "done" =>
    /\ \A k \in 1..Len(sessionLogs) :
         Cardinality(placesOf(sessionLogs[k])) = 1
    /\ \A s \in 1..Len(sessionList) :
         /\ Len(sessionList[s].others) <= 1
         /\ sessionList[s].others # << >> =>
              sessionList[s].request = << >> /\ sessionList[s].response = << >>
    /\ \A s, t \in 1..Len(sessionList) :
         (sessionList[s].response # << >>
            /\ sessionList[s].response = sessionList[t].response) => s = t

\* C29 witness: the memo has returned a session whose response also reads
\* as a request, and a session of an entry that is in no pair.
C29_Witness ==
  /\ sessionPc = "done"
  /\ \E s \in 1..Len(sessionList) :
       /\ sessionList[s].response # << >>
       /\ sessionList[s].response[1].isRequest
  /\ \E s \in 1..Len(sessionList) : sessionList[s].others # << >>

\* ------------------------------------------------------------------------
\* Properties of the JSON tool (SpecJson)
\* ------------------------------------------------------------------------
\* the step is a call of triggerTransform that parses the text and finds
\* it valid: the output is replaced, the error is cleared
transformSucceeds(text) ==
  (lastOp'.op = "transform" /\ jsonParse(text).ok) =>
    /\ state'.error = Null
    /\ state'.output \in outputsOf(lastOp'.type, jsonParse(text).value)
    /\ state'.input = state.input
    /\ state'.fileName = state.fileName

\* the step is a call of triggerTransform that parses the text and finds
\* it invalid: only the error changes
transformFails(text) ==
  (lastOp'.op = "transform" /\ ~jsonParse(text).ok) =>
    state' = [state EXCEPT !.error = ErrInvalidJson]

\* the step is an edit of the input
editClearsError ==
  lastOp'.op = "edit" =>
    /\ state'.error = Null
    /\ state'.output = state.output

\* the text that the transform of the step parses
textParsed ==
  IF lastOp'.type = "clean_format"
  THEN cleanJsonString(state.input) ELSE state.input

\* C30 as stated: triggerTransform on an input that is not valid JSON
\* sets the error message and leaves input, output and fileName as they
\* were; when it succeeds it replaces the output and clears the error;
\* an edit of the input clears the error and leaves the output.
C30_ErrorHandling ==
  [][/\ transformFails(state.input)
     /\ transformSucceeds(textParsed)
     /\ editClearsError]_vars

\* C30 amended: the text that counts is the one triggerTransform parses,
\* which for clean_format is the input after cleanJsonString.
C30_ErrorHandlingOfParsedText ==
  [][/\ transformFails(textParsed)
     /\ transformSucceeds(textParsed)
     /\ editClearsError]_vars

\* C30 witness: a transform has failed on the text of a file, after one
\* that succeeded: the error is set, the output and the file name stay.
C30_Witness ==
  /\ lastOp.op = "transform"
  /\ state.error = ErrInvalidJson
  /\ state.output # << >>
  /\ state.fileName # Null

\* ------------------------------------------------------------------------
\* Properties of one correlation run (SpecCorr), continued
\* ------------------------------------------------------------------------
\* the entry is the request some processed response was matched with
matchedByAResponse(log) ==
  \E h \in 1..Len(hist) : hist[h].m.method # "" /\ hist[h].m.request = log

\* C11: every transaction pairs a request record with a response record
\* and has status success or error, and a request that no response was
\* matched with is the request of no transaction.
C11_OnlyMatchedPairs ==
  /\ \A g \in 1..Len(groups) :
       /\ \E i \in 1..Len(parsedLogs) :
            parsedLogs[i] = groups[g].requestLog /\ isRequest(parsedLogs[i])
       /\ \E j \in 1..Len(parsedLogs) :
            parsedLogs[j] = groups[g].responseLog /\ isResponse(parsedLogs[j])
       /\ groups[g].status \in {"success", "error"}
  /\ \A i \in 1..Len(parsedLogs) :
       (isRequest(parsedLogs[i]) /\ ~matchedByAResponse(parsedLogs[i]))
         => /\ \A g \in 1..Len(groups) :
                 groups[g].requestLog # parsedLogs[i]
            /\ \A g \in 1..Len(transactions) :
                 transactions[g].requestLog # parsedLogs[i]
  /\ pc = "done" => transactions = groups

\* C11 witness: a run has ended with a transaction while a registered
\* request was matched by no response.
C11_Witness ==
  /\ pc = "done"
  /\ Len(transactions) > 0
  /\ \E r \in 1..Len(requestsByTime) :
       ~matchedByAResponse(requestsByTime[r].log)

\* a >= b, false when either side is NaN
Ge(a, b) == ~a.nan /\ ~b.nan /\ a.v >= b.v

quotedStatus(message) ==
  {i \in 1..Len(message) : message[i].k = "field" /\ message[i].a = "Status"}

\* C14: the status of a transaction is error when the level of its response
\* is ERROR, whatever the message holds; otherwise, when the response
\* message has a "Status": "<value>" field, the status is success exactly
\* when that value is Success.
C14_LevelThenStatusField ==
  \A g \in 1..Len(groups) :
    LET rs == groups[g].responseLog
        at == quotedStatus(rs.message)
    IN /\ rs.level = "ERROR" => groups[g].status = "error"
       /\ (rs.level # "ERROR" /\ at # {}) =>
            (groups[g].status = "success"
               <=> rs.message[FirstIndex(at)].b = "Success")

\* C14 witness: the run has ended with two transactions whose responses
\* both hold "Status": "Success", one with the level ERROR and one without.
C14_Witness ==
  /\ pc = "done"
  /\ \E g1, g2 \in 1..Len(transactions) :
       LET r1 == transactions[g1].responseLog
           r2 == transactions[g2].responseLog
       IN /\ r1.level = "ERROR" /\ statusValue(r1.message) = "Success"
          /\ r2.level # "ERROR" /\ statusValue(r2.message) = "Success"

\* C15: when the level of the response is not ERROR and its message has no
\* "Status": "<value>" field (a Status whose value is not in quotes counts as
\* none), the status of the transaction is error exactly when the message
\* has a "ReturnCode": "API..." field whose value is not API0001.
C15_ReturnCodeThenSuccess ==
  \A g \in 1..Len(groups) :
    LET rs == groups[g].responseLog
        otherCode == \E i \in 1..Len(rs.message) :
                       /\ rs.message[i].k = "field"
                       /\ rs.message[i].a = "ReturnCode"
                       /\ IsApiCode(rs.message[i].b)
                       /\ rs.message[i].b # "API0001"
    IN (rs.level # "ERROR" /\ quotedStatus(rs.message) = {}) =>
         (groups[g].status = "error" <=> otherCode)

\* C15 restricted to the responses without any Status token
C15_WithoutStatusToken ==
  \A g \in 1..Len(groups) :
    LET rs == groups[g].responseLog
    IN (rs.level # "ERROR" /\ ~includesStatus(rs.message)) =>
         (groups[g].status = "error" <=> returnCodeError(rs.message))

\* ------------------------------------------------------------------------
\* Properties of extractKeys (SpecCorr, over the records of parsedLogs)
\* ------------------------------------------------------------------------
\* C16: every key of extractKeys has an allow-listed field name or
\* NumberMatch as its kind; a NumberMatch value is a standalone run of 8 to
\* 15 digits of the message; and every structured key comes from a field of
\* the message whose value is not the literal null, whatever follows it.
C16_KeyKindsAndNoNull ==
  \A l \in 1..Len(parsedLogs) :
    LET message == parsedLogs[l].message
        keys == extractKeys(message)
    IN \A j \in 1..Len(keys) :
         /\ keys[j][1] \in AllowList \cup {"NumberMatch"}
         /\ keys[j][1] = "NumberMatch" =>
              \E i \in 1..Len(message) :
                /\ message[i].k \in {"num"} \cup FieldKinds
                /\ NumberText(message[i]) = keys[j][2]
                /\ message[i].n >= 8 /\ message[i].n <= 15
         /\ keys[j][1] \in AllowList =>
              \E i \in 1..Len(message) :
                /\ message[i].k \in FieldKinds
                /\ message[i].a = keys[j][1]
                /\ message[i].b # "null"

\* ------------------------------------------------------------------------
\* Properties of analyzeLogs (SpecCorr, over the records of parsedLogs)
\* ------------------------------------------------------------------------
\* C17: every record of a parsed line has one of the levels ERROR, WARN,
\* INFO, DEBUG, and its tag, whichever rule produced it, is at most 50
\* characters long.
C17_LevelAndTagLength ==
  \A l \in 1..Len(parsedLogs) :
    /\ parsedLogs[l].level \in {"ERROR", "WARN", "INFO", "DEBUG"}
    /\ \A t \in 1..Len(parsedLogs[l].tags) :
         tagLength(parsedLogs[l].tags[t]) <= TagLimit

\* C17 restricted to the tags of the colon and the brace rule
C17_CapturedTagLength ==
  \A l \in 1..Len(parsedLogs) :
    LET line == parsedLogs[l].message
        body == bodyOf(line, FirstIndex({i \in 1..Len(line) :
                                           IsTimestampTok(line[i])}))
    IN \/ /\ ~captureBefore(body, {"colon"}, "colon").ok
          /\ ~captureBefore(body, {"colon", "brace"}, "brace").ok
       \/ \A t \in 1..Len(parsedLogs[l].tags) :
            tagLength(parsedLogs[l].tags[t]) <= TagLimit

\* ------------------------------------------------------------------------
\* Properties of the lookup table during the second phase (SpecCorr)
\* ------------------------------------------------------------------------
\* the lookup table right after the h-th response was processed
lookupAfter(h) == IF h < Len(hist) THEN hist[h + 1].lookup ELSE requestLookup

\* C18: once a response is key-matched through key k, the lookup table has
\* lost k and nothing else, k stays absent for the rest of the run, and no
\* later response is key-matched through k.
C18_MatchedKeyRetired ==
  \A h \in 1..Len(hist) :
    hist[h].m.method = "Key" =>
      LET k == hist[h].m.key
      IN /\ DOMAIN lookupAfter(h) = (DOMAIN hist[h].lookup) \ {k}
         /\ \A x \in DOMAIN lookupAfter(h) :
              lookupAfter(h)[x] = hist[h].lookup[x]
         /\ k \notin DOMAIN requestLookup
         /\ \A h2 \in (h + 1)..Len(hist) :
              /\ k \notin DOMAIN hist[h2].lookup
              /\ hist[h2].m.method = "Key" => hist[h2].m.key # k
         /\ \A g1, g2 \in 1..Len(groups) :
              (/\ g1 # g2
               /\ keyMatched(groups[g1]) /\ keyMatched(groups[g2])
               /\ groups[g1].keyInfo.key = k)
                => groups[g2].keyInfo.key # k

\* C18 witness: a response was key-matched through one key of a request
\* that has another key, which is still registered at the end, and a later
\* response carries the retired key.
C18_Witness ==
  /\ pc = "done"
  /\ \E h \in 1..Len(hist) :
       /\ hist[h].m.method = "Key"
       /\ \E x \in DOMAIN requestLookup :
            x # hist[h].m.key /\ requestLookup[x] = hist[h].m.request
       /\ \E h2 \in (h + 1)..Len(hist) :
            \E j \in 1..Len(extractKeys(hist[h2].log.message)) :
              extractKeys(hist[h2].log.message)[j] = hist[h].m.key

\* the transactions right after the h-th response was processed
groupsAfter(h) == IF h < Len(hist) THEN hist[h + 1].groups ELSE groups

\* the keys of the h-th response that the lookup table had when it was
\* processed
registeredKeysOf(h) ==
  {extractKeys(hist[h].log.message)[j] : j \in HitsOf(hist[h])}

\* C19: a time-based match leaves the lookup table as it was; the request
\* it picks is the request of no transaction made before; and a later
\* response whose registered keys all lead to that request is key-matched
\* to it, which makes a second transaction with the same request.
C19_TimeMatchKeepsLookup ==
  \A h \in 1..Len(hist) :
    hist[h].m.method = "Time" =>
      LET R == hist[h].m.request
      IN /\ lookupAfter(h) = hist[h].lookup
         /\ \A g \in 1..Len(hist[h].groups) :
              hist[h].groups[g].requestLog # R
         /\ \A h2 \in (h + 1)..Len(hist) :
              (/\ registeredKeysOf(h2) # {}
               /\ \A x \in registeredKeysOf(h2) : hist[h2].lookup[x] = R)
                => \E g1, g2 \in 1..Len(groupsAfter(h2)) :
                     /\ g1 < g2
                     /\ groupsAfter(h2)[g1].requestLog = R
                     /\ groupsAfter(h2)[g1].responseLog = hist[h].log
                     /\ ~keyMatched(groupsAfter(h2)[g1])
                     /\ groupsAfter(h2)[g2].requestLog = R
                     /\ groupsAfter(h2)[g2].responseLog = hist[h2].log
                     /\ keyMatched(groupsAfter(h2)[g2])

\* C19 witness: the run has ended with a request that was paired by time
\* while its keys were registered and then key-matched by a later response.
C19_Witness ==
  /\ pc = "done"
  /\ \E h \in 1..Len(hist) :
       /\ hist[h].m.method = "Time"
       /\ \E x \in DOMAIN hist[h].lookup :
            hist[h].lookup[x] = hist[h].m.request
       /\ \E h2 \in (h + 1)..Len(hist) :
            /\ hist[h2].m.method = "Key"
            /\ hist[h2].m.request = hist[h].m.request

\* ------------------------------------------------------------------------
\* Properties of the registration of keys (SpecCorr)
\* ------------------------------------------------------------------------
\* positions, among the first n records, of the requests that carry key k
carriersOf(k, n) ==
  {i \in 1..n :
     /\ isRequest(parsedLogs[i])
     /\ \E j \in 1..Len(extractKeys(parsedLogs[i].message)) :
          extractKeys(parsedLogs[i].message)[j] = k}

\* the last of a non-empty set of positions
LastIndex(positions) == CHOOSE i \in positions : \A j \in positions : i >= j

\* the records the first phase has gone through
indexed == IF pc = "index" THEN idx - 1 ELSE Len(parsedLogs)

\* C20: the lookup table maps every key it has to the last request, in
\* stream order, that carries the key; after the index pass it has every key
\* of every request; and a key-matched transaction has that last request, so
\* the earlier requests with the key are not reached through it.
C20_LastRegistrationWins ==
  /\ \A k \in DOMAIN requestLookup :
       /\ carriersOf(k, indexed) # {}
       /\ requestLookup[k] = parsedLogs[LastIndex(carriersOf(k, indexed))]
  /\ (pc = "match" /\ hist = << >>) =>
       \A i \in 1..Len(parsedLogs) :
         isRequest(parsedLogs[i]) =>
           \A j \in 1..Len(extractKeys(parsedLogs[i].message)) :
             extractKeys(parsedLogs[i].message)[j] \in DOMAIN requestLookup
  /\ \A g \in 1..Len(groups) :
       keyMatched(groups[g]) =>
         /\ carriersOf(groups[g].keyInfo.key, Len(parsedLogs)) # {}
         /\ groups[g].requestLog =
              parsedLogs[LastIndex(carriersOf(groups[g].keyInfo.key,
                                              Len(parsedLogs)))]

\* C20 witness: the run has ended with a transaction key-matched through a
\* key that two requests carry.
C20_Witness ==
  /\ pc = "done"
  /\ \E g \in 1..Len(transactions) :
       /\ keyMatched(transactions[g])
       /\ Cardinality(carriersOf(transactions[g].keyInfo.key,
                                 Len(parsedLogs))) >= 2

\* ------------------------------------------------------------------------
\* Properties of the order of the keys (SpecCorr)
\* ------------------------------------------------------------------------
\* positions of the allow-listed fields of a message whose value is not null
valuedFields(message) ==
  {i \in 1..Len(message) :
     /\ message[i].k \in FieldKinds
     /\ message[i].a \in AllowList
     /\ message[i].b # "null"}

\* positions of the standalone runs of 8 to 15 digits of a message
numberRuns(message) ==
  {i \in 1..Len(message) :
     message[i].k = "num" /\ message[i].n >= 8 /\ message[i].n <= 15}

\* C21: in the keys of every record the structured keys come first, in text
\* order, every valued allow-listed field having its key, and after them
\* the numbers, every run of 8 to 15 digits once; a response whose only
\* registered keys are numbers is key-matched through NumberMatch, and one
\* that has a registered structured key is matched on a structured key.
C21_StructuredBeforeNumbers ==
  /\ \A l \in 1..Len(parsedLogs) :
       LET message == parsedLogs[l].message
           keys == extractKeys(message)
       IN /\ \A i, j \in 1..Len(keys) :
               (keys[i][1] = "NumberMatch" /\ keys[j][1] # "NumberMatch")
                 => j < i
          /\ \A i, j \in 1..Len(keys) :
               (keys[i][1] = "NumberMatch" /\ keys[i] = keys[j]) => i = j
          /\ \A p \in numberRuns(message) :
               \E j \in 1..Len(keys) :
                 keys[j] = <<"NumberMatch", message[p].a>>
          /\ \A p \in valuedFields(message) :
               \E j \in 1..Len(keys) :
                 keys[j] = <<message[p].a, message[p].b>>
          /\ \A p1, p2 \in valuedFields(message) :
               p1 < p2 =>
                 \E j1, j2 \in 1..Len(keys) :
                   /\ j1 < j2
                   /\ keys[j1] = <<message[p1].a, message[p1].b>>
                   /\ keys[j2] = <<message[p2].a, message[p2].b>>
  /\ \A h \in 1..Len(hist) :
       LET registered == registeredKeysOf(h)
           made == {g \in 1..Len(groups) :
                      groups[g].responseLog = hist[h].log}
       IN /\ (registered # {} /\ \A x \in registered : x[1] = "NumberMatch")
               => /\ made # {}
                  /\ \A g \in made :
                       /\ keyMatched(groups[g])
                       /\ groups[g].keyInfo.key[1] = "NumberMatch"
          /\ (\E x \in registered : x[1] # "NumberMatch")
               => /\ made # {}
                  /\ \A g \in made :
                       /\ keyMatched(groups[g])
                       /\ groups[g].keyInfo.key[1] # "NumberMatch"

\* C21 witness: the run has ended with a transaction key-matched through
\* NumberMatch whose request and response share no other key, and with a
\* transaction of a response that had a structured key and a number
\* registered.
C21_Witness ==
  /\ pc = "done"
  /\ \E h1, h2 \in 1..Len(hist) :
       /\ hist[h1].m.method = "Key"
       /\ hist[h1].m.key[1] = "NumberMatch"
       /\ \A i \in 1..Len(extractKeys(hist[h1].m.request.message)) :
            \A j \in 1..Len(extractKeys(hist[h1].log.message)) :
              extractKeys(hist[h1].m.request.message)[i]
                  = extractKeys(hist[h1].log.message)[j]
                => extractKeys(hist[h1].log.message)[j][1] = "NumberMatch"
       /\ \E x, y \in registeredKeysOf(h2) :
            x[1] = "NumberMatch" /\ y[1] # "NumberMatch"
       /\ hist[h2].m.method = "Key"

\* ------------------------------------------------------------------------
\* Properties of the role tests (SpecCorr)
\* ------------------------------------------------------------------------
\* the message has a word with s in it, in any case
saysWord(message, forms) ==
  \E i \in 1..Len(message) : message[i].k = "word" /\ message[i].a \in forms

RequestForms == {"request", "Request", "REQUEST", "ApiRequest"}

ResponseForms == {"response", "Response", "RESPONSE"}

hasBrace(message) ==
  \E i \in 1..Len(message) : message[i].k = "sym" /\ message[i].a = "{"

requestByText(message) ==
  \/ saysWord(message, RequestForms) /\ hasBrace(message)
  \/ saysWord(message, {"InputChainData"})

responseByText(message) ==
  /\ saysWord(message, ResponseForms)
  /\ hasBrace(message) \/ saysWord(message, {"OutputChainData"})

\* the records the second phase has gone through
matched == IF pc = "index" THEN 0
           ELSE IF pc = "match" THEN idx - 1 ELSE Len(parsedLogs)

\* C22: the first phase takes a record as a request exactly when its
\* message says request, in any case, and has a '{', or has the marker
\* InputChainData; the second phase takes a record as a response exactly
\* when its message says response, in any case, and has a '{' or the marker
\* OutputChainData.
C22_RoleClassification ==
  /\ \A i \in 1..indexed :
       (\E r \in 1..Len(requestsByTime) :
          requestsByTime[r].log = parsedLogs[i])
         <=> (requestByText(parsedLogs[i].message)
                /\ extractKeys(parsedLogs[i].message) # << >>)
  /\ \A i \in 1..matched :
       (\E h \in 1..Len(hist) : hist[h].log = parsedLogs[i])
         <=> responseByText(parsedLogs[i].message)

\* C22 witness: the run has ended over a record that was taken both as a
\* request and as a response, one taken as a request through the marker
\* InputChainData alone, and one taken as a response through the marker
\* OutputChainData without a '{'.
C22_Witness ==
  /\ pc = "done"
  /\ \E r \in 1..Len(requestsByTime) :
       \E h \in 1..Len(hist) : hist[h].log = requestsByTime[r].log
  /\ \E r \in 1..Len(requestsByTime) :
       ~saysWord(requestsByTime[r].log.message, RequestForms)
  /\ \E h \in 1..Len(hist) : ~hasBrace(hist[h].log.message)

\* C22 witness of the record with neither role: the run has ended over a
\* record that neither phase took.
C22_NeitherRole ==
  /\ pc = "done"
  /\ \E i \in 1..Len(parsedLogs) :
       /\ \A r \in 1..Len(requestsByTime) :
            requestsByTime[r].log # parsedLogs[i]
       /\ \A h \in 1..Len(hist) : hist[h].log # parsedLogs[i]
       /\ extractKeys(parsedLogs[i].message) # << >>

\* ------------------------------------------------------------------------
\* Properties of the pairs (SpecCorr)
\* ------------------------------------------------------------------------
\* C23: in every transaction the request record and the response record are
\* two distinct records of the stream.
C23_NoSelfPairing ==
  \A g \in 1..Len(groups) :
    groups[g].requestLog.ref # groups[g].responseLog.ref

\* C23 restricted to the records that have one role only
C23_SingleRoleNotSelfPaired ==
  \A g \in 1..Len(groups) :
    ~(requestByText(groups[g].responseLog.message)
        /\ responseByText(groups[g].responseLog.message))
      => groups[g].requestLog.ref # groups[g].responseLog.ref

\* C24: in every transaction the request record occurs earlier in the
\* stream than the response record.
C24_RequestBeforeResponse ==
  \A g \in 1..Len(groups) :
    groups[g].requestLog.ref < groups[g].responseLog.ref

\* the keys of a message, as a set
keySet(message) ==
  {extractKeys(message)[j] : j \in 1..Len(extractKeys(message))}

\* C25: the key recorded in a key-matched transaction is among the keys of
\* the message of its request and among the keys of the message of its
\* response.
C25_KeyInBothMessages ==
  \A g \in 1..Len(groups) :
    keyMatched(groups[g]) =>
      /\ groups[g].keyInfo.key \in keySet(groups[g].requestLog.message)
      /\ groups[g].keyInfo.key \in keySet(groups[g].responseLog.message)

\* C25 witness: the run has ended with a key-matched transaction whose
\* request has a key that the response does not have, and whose response
\* has a key that the request does not have.
C25_Witness ==
  /\ pc = "done"
  /\ \E g \in 1..Len(transactions) :
       /\ keyMatched(transactions[g])
       /\ keySet(transactions[g].requestLog.message)
            \ keySet(transactions[g].responseLog.message) # {}
       /\ keySet(transactions[g].responseLog.message)
            \ keySet(transactions[g].requestLog.message) # {}

\* C26: a time-paired transaction has a duration above 0 ms and below
\* 10000 ms, and the time of its request is before the time of its response.
C26_TimePairedDuration ==
  \A g \in 1..Len(groups) :
    ~keyMatched(groups[g]) =>
      LET reqTime == getTime(groups[g].requestLog.timestamp)
          responseTime == getTime(groups[g].responseLog.timestamp)
      IN /\ ~groups[g].duration.nan
         /\ groups[g].duration.v > 0
         /\ groups[g].duration.v < Window
         /\ ~reqTime.nan /\ ~responseTime.nan
         /\ reqTime.v < responseTime.v

\* C26 witness: the run has ended with a time-paired transaction, over a
\* stream that also has a request the response was too late for.
C26_Witness ==
  /\ pc = "done"
  /\ \E g \in 1..Len(transactions) :
       /\ ~keyMatched(transactions[g])
       /\ \E r \in 1..Len(requestsByTime) :
            /\ requestsByTime[r].log # transactions[g].requestLog
            /\ ~alreadyMatched(transactions, requestsByTime[r].log)
            /\ ~Lt(Minus(getTime(transactions[g].responseLog.timestamp),
                         requestsByTime[r].time), Num(Window))

====
